---- MODULE Spec2Model ----
(***************************************************************************)
(* Team meal planner: the record store (suggestions, votes, attendance,    *)
(* week plans), the vote aggregation views computed over a snapshot of it  *)
(* (VotingResults, RestaurantSorting, calculateWinner) and the admin       *)
(* confirm / override / undo flow of NextWeekView and useQueries.          *)
(***************************************************************************)
EXTENDS Integers, Sequences, FiniteSets, TLC

\* ---------------------------------------------------------------- bounds
MaxSuggestions == 2
MaxVotes == 3
MaxRank == 2
MaxName == 2
\* Votes in the store while the views are rendered (SpecView).
MaxViewVotes == 1
\* Week plan rows in the store, plan ids handed out and votes cast while the
\* confirmation flow runs (SpecPlan).
MaxPlans == 2
MaxPlanId == 2
MaxPlanVotes == 1
\* upsertAttendance answers a browser has not yet put in its cache
\* (SpecAttendance).
MaxReplies == 1
\* Upserts of one browser's saves that are still under way (SpecVoting).
MaxPending == 2
\* The places proxy (SpecProxy): results on one upstream page, the clock's
\* end and step in ms, and the largest offset of a place from the caller in
\* thousandths of a degree of latitude.
MaxPageResults == 1
MaxTime == 6000
TickMs == 1000
MaxOffset == 2

\* The users of the store: 1 is the admin, 2 and 3 are not.
Users == {1, 2}
is_admin(u) == u = 1
\* Position of a user's display name under localeCompare
\* ("Admin User" < "Jane Doe" < "John Smith").
user_name(u) == CASE u = 1 -> 1 [] u = 2 -> 3 [] OTHER -> 2

Names == 1..MaxName
Ranks == 1..MaxRank

SortOptions == {"name", "date", "author", "votes", "score", "popularity"}
SortDirections == {"asc", "desc"}

VARIABLES
    suggestions,   \* store: Suggestion rows of the week, in creation order
    votes,         \* store: Vote rows, in insertion order
    attendance,    \* store: Attendance rows of the week, in insertion order
    sortBy,        \* RestaurantSorting: useState("score")
    sortDirection, \* RestaurantSorting: useState("desc")
    statsMemo,     \* RestaurantSorting: the memoised suggestionsWithStats
    sortedView,    \* RestaurantSorting: the memoised sortedSuggestions
    resultsView,   \* VotingResults: results, as last rendered
    winnerView,    \* NextWeekView: winnerSuggestionId, as last rendered
    weekPlans,     \* store: WeekPlan rows of the week, in insertion order
    nextPlanId,    \* store: the id the next inserted WeekPlan row gets
    weekPlan,      \* per session: the week plan query data (None: no plan)
    pc,            \* per session: where its confirm / undo mutation stands
    req,           \* per session: the arguments of the mutation in flight
    attendanceCache,   \* per browser: the attendance query data
    attendanceReplies, \* per browser: upsertAttendance results not yet in the cache
    rankedSuggestions, \* per browser: DragDropVoting's ordering (suggestion ids)
    hasChanges,        \* per browser: DragDropVoting useState(false)
    isSaving,          \* per browser: DragDropVoting useState(false)
    pendingUpserts,    \* per browser: the upsertVote calls under way; awaited
                       \* marks those the running save still waits for
    searchType,        \* proxy request: searchType of the body
    apiKeySet,         \* proxy: GOOGLE_PLACES_API_KEY is configured
    userLat,           \* proxy request: params.lat (thousandths of a degree)
    ppc,               \* proxy: where the handler stands
    pageToken,         \* proxy: pageToken is set
    pageCount,         \* proxy: pageCount
    allResults,        \* proxy: allResults (the latitude of each place)
    data,              \* proxy: the body of the last upstream answer
    response,          \* proxy: the Response returned to the caller
    fetchCount,        \* upstream requests issued for the request
    received,          \* upstream answers received for the request
    timersStarted,     \* setTimeout calls of the request
    now,               \* the clock, ms
    timerSetAt,        \* when the last setTimeout was called
    lastResponseAt,    \* when the last upstream answer arrived
    guardReturned,     \* handler calls of a non-admin that returned at the guard
    invocations,       \* proxy: per request in flight together, the handler's locals
    beforeToggle       \* what a browser showed from before its user was last set to
                       \* not attending

storeVars == <<suggestions, votes, attendance>>
viewVars == <<sortBy, sortDirection, statsMemo, sortedView, resultsView, winnerView>>
planVars == <<weekPlans, nextPlanId, weekPlan, pc, req>>
attendanceVars == <<attendanceCache, attendanceReplies, beforeToggle>>
\* The client state outside the views and the confirmation flow.
votingVars == <<rankedSuggestions, hasChanges, isSaving, pendingUpserts>>
proxyVars == <<searchType, apiKeySet, userLat, ppc, pageToken, pageCount,
               allResults, data, response, fetchCount, received, timersStarted,
               now, timerSetAt, lastResponseAt>>
\* What is recorded about the calls the handlers turned away, and the proxy
\* handling two requests at a time.
extraVars == <<guardReturned, invocations>>
auxVars == <<attendanceVars, votingVars, proxyVars, extraVars>>
vars == <<suggestions, votes, attendance, sortBy, sortDirection, statsMemo,
          sortedView, resultsView, winnerView, weekPlans, nextPlanId, weekPlan,
          pc, req, auxVars>>

\* Two browser sessions, both signed in as the administrator.
Sessions == {"admin1", "admin2"}
SessionUser(c) == CHOOSE u \in Users : is_admin(u)
\* The browsers with the page open: the admin's two and a member's.
Browsers == Sessions \cup {"member"}
BrowserUser(b) == IF b \in Sessions THEN SessionUser(b) ELSE CHOOSE u \in Users : ~is_admin(u)
\* Query data before the first load (undefined; read as data || []).
NotLoaded == [loaded |-> FALSE, rows |-> <<>>]
\* The proxy before it has an upstream answer and before it has answered.
NoData == [status |-> "", results |-> <<>>, next_page_token |-> FALSE]
NoResponse == [status |-> 0, body_status |-> "", error |-> "", results |-> <<>>,
               total_results |-> 0]

\* "" / undefined: no suggestion id.
None == 0
\* The destination stored when the selected id is no suggestion's.
Unknown == -1
\* null / undefined where a WeekPlan row is expected.
NoPlan == [id |-> 0, selected_suggestion_id |-> None, admin_override |-> FALSE,
           final_destination |-> None, is_confirmed |-> FALSE]
NoRequest == [suggestionId |-> None, selectedSuggestionId |-> None,
              adminOverride |-> FALSE, finalDestination |-> None,
              existingPlan |-> NoPlan]

\* ------------------------------------------------------- array helpers
Includes(seq, x) == \E i \in 1..Len(seq) : seq[i] = x

RECURSIVE SumRanks(_)
\* suggestionVotes.reduce((sum, vote) => sum + vote.rank, 0)
SumRanks(vs) ==
    IF vs = <<>> THEN 0 ELSE SumRanks(SubSeq(vs, 1, Len(vs) - 1)) + vs[Len(vs)].rank

\* seq.findIndex(...) over the positions hits that satisfy the test: the
\* first of them, 0 when there is none (JavaScript's -1).
FindIndex(hits) ==
    IF hits = {} THEN 0 ELSE CHOOSE i \in hits : \A j \in hits : i <= j

\* Array.prototype.sort with comparator cmp (a matrix over the positions of
\* seq: cmp[i][j] < 0 puts seq[i] first): the stable order.
SortPos(n, cmp, i) ==
    1 + Cardinality({j \in 1..n : cmp[j][i] < 0 \/ (cmp[j][i] = 0 /\ j < i)})

\* A function on 1..n as the array (tuple) of its values.
Array(f) == SubSeq(f, 1, Len(f))

Sort(seq, cmp) ==
    LET n == Len(seq)
        c == Array([i \in 1..n |-> Array(cmp[i])])
        pos == Array([i \in 1..n |-> SortPos(n, c, i)])
    IN  Array([p \in 1..n |-> seq[CHOOSE i \in 1..n : pos[i] = p]])

\* --------------------------------------------------------------- store
\* No proxy request has been taken up.
ProxyIdle ==
    /\ ppc = "start"
    /\ pageToken = FALSE
    /\ pageCount = 0
    /\ allResults = <<>>
    /\ data = NoData
    /\ response = NoResponse
    /\ fetchCount = 0
    /\ received = 0
    /\ timersStarted = 0
    /\ now = 0
    /\ timerSetAt = 0
    /\ lastResponseAt = 0

\* No browser has set its user to not attending yet.
NoSnapshot == [holder |-> "", rows |-> <<>>, votes |-> <<>>, suggestions |-> <<>>]

\* The requests the proxy handles at the same time.
Requests == {1, 2}
\* The locals of a handler invocation before its first statement; fetched
\* notes the results of the pages it got with success, overlapped that one
\* of its pages arrived while the other request was in flight.
NewInvocation ==
    [ppc |-> "start", pageToken |-> FALSE, pageCount |-> 0, allResults |-> <<>>,
     response |-> NoResponse, timerSetAt |-> 0, fetched |-> <<>>,
     overlapped |-> FALSE]

\* No handler call has been turned away; two requests have reached the proxy.
ExtraInit ==
    /\ guardReturned = {}
    /\ beforeToggle = NoSnapshot
    /\ invocations = [r \in Requests |-> NewInvocation]

AuxInit ==
    /\ attendanceCache = [b \in Browsers |-> NotLoaded]
    /\ attendanceReplies = [b \in Browsers |-> <<>>]
    /\ rankedSuggestions = [b \in Browsers |-> <<>>]
    /\ hasChanges = [b \in Browsers |-> FALSE]
    /\ isSaving = [b \in Browsers |-> FALSE]
    /\ pendingUpserts = [b \in Browsers |-> {}]
    /\ searchType = "nearby"
    /\ apiKeySet = TRUE
    /\ userLat = 0
    /\ ProxyIdle
    /\ ExtraInit

Init ==
    /\ suggestions = <<>>
    /\ votes = <<>>
    /\ attendance = <<>>
    /\ sortBy = "score"
    /\ sortDirection = "desc"
    /\ statsMemo = <<>>
    /\ sortedView = <<>>
    /\ resultsView = <<>>
    /\ winnerView = 0
    /\ weekPlans = <<>>
    /\ nextPlanId = 1
    /\ weekPlan = [c \in Sessions |-> NoPlan]
    /\ pc = [c \in Sessions |-> "idle"]
    /\ req = [c \in Sessions |-> NoRequest]
    /\ AuxInit

\* addSuggestion: ids and created_at grow with every insertion.
addSuggestion(u, name) ==
    /\ Len(suggestions) < MaxSuggestions
    /\ suggestions' = Append(suggestions,
          [id |-> Len(suggestions) + 1, user_id |-> u, restaurant |-> name,
           created_at |-> Len(suggestions) + 1])
    /\ UNCHANGED <<votes, attendance>>

\* Mutant: the upsert never looks for the row of the pair.
upsertVote_AlwaysInsert(u, sid, r) ==
    /\ \E i \in 1..Len(suggestions) : suggestions[i].id = sid
    /\ Len(votes) < MaxVotes
    /\ votes' = Append(votes,
          [id |-> Len(votes) + 1, user_id |-> u, suggestion_id |-> sid, rank |-> r])
    /\ UNCHANGED <<suggestions, attendance>>

\* upsertVote (onConflict user_id, suggestion_id): the row of the pair takes
\* the rank, or a new row is inserted.
upsertVote(u, sid, r) ==
    LET existingIndex ==
            FindIndex({i \in 1..Len(votes) :
                votes[i].user_id = u /\ votes[i].suggestion_id = sid})
    IN  /\ \E i \in 1..Len(suggestions) : suggestions[i].id = sid
        /\ IF existingIndex > 0
           THEN votes' = [votes EXCEPT ![existingIndex].rank = r]
           ELSE /\ Len(votes) < MaxVotes
                /\ votes' = Append(votes,
                      [id |-> Len(votes) + 1, user_id |-> u,
                       suggestion_id |-> sid, rank |-> r])
        /\ UNCHANGED <<suggestions, attendance>>

\* Mutant: the upsert never looks for the row of the user and week.
upsertAttendance_AlwaysInsert(u, b) ==
    /\ Len(attendance) < Cardinality(Users) + 1
    /\ attendance' = Append(attendance,
          [id |-> Len(attendance) + 1, user_id |-> u, is_attending |-> b])
    /\ UNCHANGED <<suggestions, votes>>

\* upsertAttendance (onConflict user_id, week_of): the rows are those of one
\* week.
upsertAttendance(u, b) ==
    LET existingIndex == FindIndex({i \in 1..Len(attendance) : attendance[i].user_id = u})
    IN  /\ IF existingIndex > 0
           THEN attendance' = [attendance EXCEPT ![existingIndex].is_attending = b]
           ELSE attendance' = Append(attendance,
                      [id |-> Len(attendance) + 1, user_id |-> u,
                       is_attending |-> b])
        /\ UNCHANGED <<suggestions, votes>>

\* ------------------------------------------------- aggregation views
\* attendance.filter((a) => a.is_attending).map((a) => a.user_id)
attendingUsers(att) ==
    LET attending == SelectSeq(att, LAMBDA a : a.is_attending)
    IN  Array([i \in 1..Len(attending) |-> attending[i].user_id])

\* Mutant: the votes of every user count.
relevantVotes_Unfiltered(vs, attendingUserIds) == vs

relevantVotes(vs, attendingUserIds) ==
    SelectSeq(vs, LAMBDA v : Includes(attendingUserIds, v.user_id))

\* totalScore / voteCount as a fraction in lowest terms (0 is 0/1).
RECURSIVE Gcd(_, _)
Gcd(a, b) == IF b = 0 THEN a ELSE Gcd(b, a % b)

\* Mutant: the average is rounded down.
Divide_Floor(a, b) == [num |-> a \div b, den |-> 1]

Divide(a, b) == [num |-> a \div Gcd(a, b), den |-> b \div Gcd(a, b)]

\* Sign of x - y for two fractions.
FracCmp(x, y) == x.num * y.den - y.num * x.den

\* The per-suggestion statistics of VotingResults and RestaurantSorting.
SuggestionStats(suggestion, vs, attendingUserIds) ==
    LET suggestionVotes ==
            SelectSeq(relevantVotes(vs, attendingUserIds),
                      LAMBDA v : v.suggestion_id = suggestion.id)
        totalScore == SumRanks(suggestionVotes)
        voteCount == Len(suggestionVotes)
        averageRank == IF voteCount > 0 THEN Divide(totalScore, voteCount)
                       ELSE [num |-> 0, den |-> 1]
    IN  [id |-> suggestion.id, user_id |-> suggestion.user_id,
         restaurant |-> suggestion.restaurant,
         created_at |-> suggestion.created_at,
         totalScore |-> totalScore, averageRank |-> averageRank,
         voteCount |-> voteCount, rank |-> 0]

\* results.forEach((result, index) => { result.rank = index + 1 })
AssignRanks(seq) == Array([i \in 1..Len(seq) |-> [seq[i] EXCEPT !.rank = i]])

\* Mutant: a.totalScore - b.totalScore, the ascending order.
ScoreDescending_Ascending(seq) ==
    [i \in 1..Len(seq) |-> [j \in 1..Len(seq) |->
        seq[i].totalScore - seq[j].totalScore]]

ScoreDescending(seq) ==
    [i \in 1..Len(seq) |-> [j \in 1..Len(seq) |->
        seq[j].totalScore - seq[i].totalScore]]

\* VotingResults: the results array after the sort and the rank assignment.
VotingResults(suggs, vs, att) ==
    LET results == Array([i \in 1..Len(suggs) |->
                        SuggestionStats(suggs[i], vs, attendingUsers(att))])
    IN  AssignRanks(Sort(results, ScoreDescending(results)))

\* RestaurantSorting: suggestionsWithStats.
suggestionsWithStats(suggs, vs, attendingUserIds) ==
    Array([i \in 1..Len(suggs) |-> SuggestionStats(suggs[i], vs, attendingUserIds)])

Comparison(a, b, by) ==
    CASE by = "name" -> a.restaurant - b.restaurant
      [] by = "date" -> a.created_at - b.created_at
      [] by = "author" -> user_name(a.user_id) - user_name(b.user_id)
      [] by = "votes" -> a.voteCount - b.voteCount
      [] by = "score" -> a.totalScore - b.totalScore
      [] by = "popularity" -> FracCmp(a.averageRank, b.averageRank)
      [] OTHER -> 0

SortComparator(seq, by, dir) ==
    [i \in 1..Len(seq) |-> [j \in 1..Len(seq) |->
        IF dir = "asc" THEN Comparison(seq[i], seq[j], by)
        ELSE 0 - Comparison(seq[i], seq[j], by)]]

\* Mutant: suggestionsWithStats.sort(...) without the copy, so the memoised
\* array itself is reordered.
sortedSuggestionsMemo_InPlace(stats, by, dir) ==
    LET sorted == Sort(stats, SortComparator(stats, by, dir))
        scoreRanked == Sort(sorted, ScoreDescending(sorted))
        rankOf(item) == CHOOSE k \in 1..Len(scoreRanked) : scoreRanked[k].id = item.id
        ranked == Array([i \in 1..Len(sorted) |->
                      [sorted[i] EXCEPT !.rank = rankOf(sorted[i])]])
    IN  [memo |-> ranked, sorted |-> ranked]

\* RestaurantSorting: the sortedSuggestions memo. The rank of an item is its
\* place in scoreRanked, a score-descending sort of the already sorted list.
\* The items are shared with suggestionsWithStats, whose objects get the
\* ranks too while its order stays: memo is that array afterwards, sorted
\* the value returned.
sortedSuggestionsMemo(stats, by, dir) ==
    LET sorted == Sort(stats, SortComparator(stats, by, dir))
        scoreRanked == Sort(sorted, ScoreDescending(sorted))
        rankOf(item) == CHOOSE k \in 1..Len(scoreRanked) : scoreRanked[k].id = item.id
    IN  [memo |-> Array([i \in 1..Len(stats) |->
                      [stats[i] EXCEPT !.rank = rankOf(stats[i])]]),
         sorted |-> Array([i \in 1..Len(sorted) |->
                      [sorted[i] EXCEPT !.rank = rankOf(sorted[i])]])]

sortedSuggestions(stats, by, dir) == sortedSuggestionsMemo(stats, by, dir).sorted

RestaurantSorting(suggs, vs, attendingUserIds, by, dir) ==
    sortedSuggestions(suggestionsWithStats(suggs, vs, attendingUserIds), by, dir)

\* calculateWinner: the score map as its keys in insertion order and its
\* values; the scan keeps the first key whose score exceeds the running
\* maximum.
RECURSIVE ScoreMap(_)
ScoreMap(rel) ==
    IF rel = <<>> THEN [keys |-> <<>>, val |-> <<>>]
    ELSE LET m == ScoreMap(SubSeq(rel, 1, Len(rel) - 1))
             vote == rel[Len(rel)]
             k == FindIndex({i \in 1..Len(m.keys) : m.keys[i] = vote.suggestion_id})
         IN  IF k > 0
             THEN [m EXCEPT !.val[k] = @ + vote.rank]
             ELSE [keys |-> Append(m.keys, vote.suggestion_id),
                   val |-> Append(m.val, 0 + vote.rank)]

RECURSIVE ScanWinner_LastTieWins(_, _)
\* Mutant: score >= highestScore, so an equal score overwrites the maximum.
ScanWinner_LastTieWins(m, n) ==
    IF n = 0 THEN [winner |-> 0, highestScore |-> 0]
    ELSE LET acc == ScanWinner_LastTieWins(m, n - 1)
         IN  IF m.val[n] >= acc.highestScore
             THEN [winner |-> m.keys[n], highestScore |-> m.val[n]]
             ELSE acc

RECURSIVE ScanWinner(_, _)
\* The state [winner, highestScore] after scoreMap.forEach over the first n
\* entries; "" is modelled as 0, which is no suggestion id.
ScanWinner(m, n) ==
    IF n = 0 THEN [winner |-> 0, highestScore |-> 0]
    ELSE LET acc == ScanWinner(m, n - 1)
         IN  IF m.val[n] > acc.highestScore
             THEN [winner |-> m.keys[n], highestScore |-> m.val[n]]
             ELSE acc

calculateWinner(vs, att) ==
    LET scoreMap == ScoreMap(relevantVotes(vs, attendingUsers(att)))
    IN  ScanWinner(scoreMap, Len(scoreMap.keys)).winner

\* ------------------------------------------------- reference quantities
\* The votes (as positions of the votes list) that count for suggestion sid:
\* they reference it and their voter has an attendance row that says
\* attending.
EligibleVotes(sid) ==
    {i \in 1..Len(votes) :
        /\ votes[i].suggestion_id = sid
        /\ \E k \in 1..Len(attendance) :
              attendance[k].user_id = votes[i].user_id /\ attendance[k].is_attending}

RECURSIVE RankSum(_)
RankSum(I) ==
    IF I = {} THEN 0
    ELSE LET i == CHOOSE x \in I : TRUE IN votes[i].rank + RankSum(I \ {i})

EligibleScore(sid) == RankSum(EligibleVotes(sid))

SuggestionIds == {suggestions[i].id : i \in 1..Len(suggestions)}

\* C1: in VotingResults, in RestaurantSorting and in the score map of
\* calculateWinner, the total score of a suggestion is the sum of the ranks
\* of exactly the votes that reference it and whose voter has an attendance
\* row with is_attending = true; any other vote changes no score.
C1_TotalScoreCountsOnlyAttending ==
    LET res == VotingResults(suggestions, votes, attendance)
        stats == suggestionsWithStats(suggestions, votes, attendingUsers(attendance))
        scoreMap == ScoreMap(relevantVotes(votes, attendingUsers(attendance)))
    IN  /\ \A i \in 1..Len(res) : res[i].totalScore = EligibleScore(res[i].id)
        /\ \A i \in 1..Len(stats) : stats[i].totalScore = EligibleScore(stats[i].id)
        /\ \A k \in 1..Len(scoreMap.keys) :
              scoreMap.val[k] = EligibleScore(scoreMap.keys[k])
        /\ \A sid \in SuggestionIds :
              EligibleVotes(sid) # {} => Includes(scoreMap.keys, sid)

\* A suggestion has a counted vote and a second vote on it, cast by a user
\* whose attendance row says not attending, that is not counted.
C1_Witness ==
    \E sid \in SuggestionIds :
        /\ EligibleScore(sid) >= 1
        /\ \E i \in 1..Len(votes), k \in 1..Len(attendance) :
              /\ votes[i].suggestion_id = sid
              /\ attendance[k].user_id = votes[i].user_id
              /\ ~attendance[k].is_attending

AllEligibleVotes == UNION {EligibleVotes(sid) : sid \in SuggestionIds}

\* The suggestions that have a score-map entry, and the place of the first
\* counted vote of each in the votes list.
Scored == {sid \in SuggestionIds : EligibleVotes(sid) # {}}

FirstEligibleVote(sid) ==
    CHOOSE i \in EligibleVotes(sid) : \A j \in EligibleVotes(sid) : i <= j

winnerSuggestionId == calculateWinner(votes, attendance)

\* C2: when some suggestion has a counted vote, calculateWinner returns a
\* suggestion whose score is maximal among the scored suggestions, and among
\* those with the maximal score the one whose first counted vote comes
\* earliest in the votes list.
C2_WinnerIsFirstInsertedMaximum ==
    Scored # {} =>
        /\ winnerSuggestionId \in Scored
        /\ \A t \in Scored :
              /\ EligibleScore(t) <= EligibleScore(winnerSuggestionId)
              /\ EligibleScore(t) = EligibleScore(winnerSuggestionId) =>
                    FirstEligibleVote(winnerSuggestionId) <= FirstEligibleVote(t)

\* Two suggestions tie for the highest score and the winner is the one
\* created later: its first counted vote was cast earlier.
C2_Witness ==
    \E a, b \in Scored :
        /\ a < b
        /\ EligibleScore(a) = EligibleScore(b)
        /\ winnerSuggestionId = b

AllStatsZero(seq) ==
    \A i \in 1..Len(seq) :
        /\ seq[i].totalScore = 0
        /\ seq[i].voteCount = 0
        /\ seq[i].averageRank.num = 0

\* C3: with at least one suggestion and no counted vote, every suggestion
\* has total score 0, vote count 0 and average 0, and winner selection names
\* the first suggestion in iteration order.
C3_NoVotesWinnerIsFirstSuggestion ==
    (Len(suggestions) >= 1 /\ AllEligibleVotes = {}) =>
        /\ AllStatsZero(VotingResults(suggestions, votes, attendance))
        /\ AllStatsZero(suggestionsWithStats(suggestions, votes,
                                             attendingUsers(attendance)))
        /\ winnerSuggestionId = suggestions[1].id

\* Every suggestion exactly once.
IsRankingOfSuggestions(seq) ==
    /\ Len(seq) = Len(suggestions)
    /\ \A sid \in SuggestionIds :
          Cardinality({i \in 1..Len(seq) : seq[i].id = sid}) = 1

RanksAreOneToN(seq) ==
    /\ {seq[i].rank : i \in 1..Len(seq)} = 1..Len(suggestions)
    /\ \A i, j \in 1..Len(seq) : seq[i].rank = seq[j].rank => i = j

\* C4: the full ranking of VotingResults holds every suggestion exactly
\* once in non-increasing order of total score with ranks 1..N by position,
\* and under every sort option and direction RestaurantSorting lists every
\* suggestion exactly once with ranks that are exactly 1..N and never give
\* a lower score the better rank.
C4_RankingIsDescendingWithRanksOneToN ==
    LET res == VotingResults(suggestions, votes, attendance)
    IN  /\ IsRankingOfSuggestions(res)
        /\ \A i \in 1..Len(res) : res[i].rank = i
        /\ \A i, j \in 1..Len(res) : i < j => res[i].totalScore >= res[j].totalScore
        /\ \A by \in SortOptions, dir \in SortDirections :
              LET rs == RestaurantSorting(suggestions, votes,
                            attendingUsers(attendance), by, dir)
              IN  /\ IsRankingOfSuggestions(rs)
                  /\ RanksAreOneToN(rs)
                  /\ \A i, j \in 1..Len(rs) :
                        rs[i].rank < rs[j].rank => rs[i].totalScore >= rs[j].totalScore

\* Two suggestions, and the one created later has the higher score, so the
\* ranking is not the input order.
C4_Witness ==
    /\ Len(suggestions) = 2
    /\ EligibleScore(suggestions[2].id) > EligibleScore(suggestions[1].id)
    /\ EligibleScore(suggestions[1].id) > 0

RankIn(seq, sid) == seq[CHOOSE i \in 1..Len(seq) : seq[i].id = sid].rank

TiesRankedInInputOrder(seq) ==
    \A i, j \in 1..Len(suggestions) :
        (i < j /\ EligibleScore(suggestions[i].id) = EligibleScore(suggestions[j].id))
            => RankIn(seq, suggestions[i].id) < RankIn(seq, suggestions[j].id)

\* C5: in VotingResults and in RestaurantSorting under every sort option
\* and direction, suggestions with equal total score are ranked in the
\* input order of the suggestions.
C5_TiesRankedInInputOrderInEveryView ==
    /\ TiesRankedInInputOrder(VotingResults(suggestions, votes, attendance))
    /\ \A by \in SortOptions, dir \in SortDirections :
          TiesRankedInInputOrder(
              RestaurantSorting(suggestions, votes, attendingUsers(attendance),
                                by, dir))

VoteCountAndAverageOk(seq) ==
    \A i \in 1..Len(seq) :
        /\ seq[i].voteCount = Cardinality(EligibleVotes(seq[i].id))
        /\ seq[i].averageRank.den > 0
        /\ seq[i].voteCount > 0 =>
              seq[i].averageRank.num * seq[i].voteCount
                  = seq[i].totalScore * seq[i].averageRank.den
        /\ seq[i].voteCount = 0 => seq[i].averageRank.num = 0

\* C6: for every suggestion, in VotingResults and in RestaurantSorting, the
\* vote count is the number of counted votes that reference it and the
\* average is total score / vote count when the count is positive and 0
\* when it is 0.
C6_VoteCountAndAverage ==
    /\ VoteCountAndAverageOk(VotingResults(suggestions, votes, attendance))
    /\ VoteCountAndAverageOk(suggestionsWithStats(suggestions, votes,
                                                  attendingUsers(attendance)))

\* One suggestion has two counted votes whose ranks sum to 3 (average 3/2),
\* another has none.
C6_Witness ==
    \E a, b \in SuggestionIds :
        /\ Cardinality(EligibleVotes(a)) = 2
        /\ EligibleScore(a) = 3
        /\ EligibleVotes(b) = {}

\* --------------------------------------------------------- the store
StoreStep ==
    \/ \E u \in Users, n \in Names : addSuggestion(u, n)
    \/ \E u \in Users, s \in 1..MaxSuggestions, r \in Ranks : upsertVote(u, s, r)
    \/ \E u \in Users, b \in BOOLEAN : upsertAttendance(u, b)

Next ==
    \/ \E u \in Users, n \in Names :
          addSuggestion(u, n) /\ UNCHANGED <<viewVars, planVars, auxVars>>
    \/ \E u \in Users, s \in 1..MaxSuggestions, r \in Ranks :
          upsertVote(u, s, r) /\ UNCHANGED <<viewVars, planVars, auxVars>>
    \/ \E u \in Users, b \in BOOLEAN :
          upsertAttendance(u, b) /\ UNCHANGED <<viewVars, planVars, auxVars>>

Spec == Init /\ [][Next]_vars

\* The positions in vs of the votes of user u for suggestion sid.
VotesOfPair(vs, u, sid) ==
    {i \in 1..Len(vs) : vs[i].user_id = u /\ vs[i].suggestion_id = sid}

\* C11: after any sequence of upsertVote calls the store holds at most one
\* vote per (user_id, suggestion_id) pair and that vote has the rank of the
\* most recent upsert for the pair; an upsert on an existing pair changes
\* only the rank and keeps the vote's id, an upsert on a new pair adds one
\* vote and changes no other.
C11_UpsertVoteKeepsOneVotePerPair ==
    [][\A u \in Users, sid \in 1..MaxSuggestions, r \in Ranks :
          upsertVote(u, sid, r) =>
             LET old == VotesOfPair(votes, u, sid)
                 new == VotesOfPair(votes', u, sid)
             IN  /\ Cardinality(new) = 1
                 /\ \A i \in new : votes'[i].rank = r
                 /\ \A v \in Users, t \in 1..MaxSuggestions :
                       Cardinality(VotesOfPair(votes', v, t)) <= 1
                 /\ old # {} =>
                       /\ Len(votes') = Len(votes)
                       /\ \A i \in 1..Len(votes) :
                             /\ votes'[i].id = votes[i].id
                             /\ votes'[i].user_id = votes[i].user_id
                             /\ votes'[i].suggestion_id = votes[i].suggestion_id
                             /\ i \notin old => votes'[i] = votes[i]
                 /\ old = {} =>
                       /\ Len(votes') = Len(votes) + 1
                       /\ SubSeq(votes', 1, Len(votes)) = votes]_vars

\* A store in which one user has voted for two suggestions and two users
\* have voted for the same suggestion, with different ranks.
C11_Witness ==
    /\ Len(votes) = 3
    /\ \E i, j, k \in 1..Len(votes) :
          /\ votes[i].user_id = votes[j].user_id
          /\ votes[i].suggestion_id # votes[j].suggestion_id
          /\ votes[k].user_id # votes[i].user_id
          /\ votes[k].suggestion_id = votes[i].suggestion_id
          /\ votes[k].rank # votes[i].rank
\* ------------------------------------------------ the rendered views
\* A render of NextWeekView with its children from the snapshot: the parent
\* passes a new attendingUserIds array, so suggestionsWithStats is computed
\* afresh (rank 0) and sortedSuggestions after it.
Render(suggs, vs, att) ==
    LET fresh == suggestionsWithStats(suggs, vs, attendingUsers(att))
        memo == sortedSuggestionsMemo(fresh, sortBy, sortDirection)
    IN  /\ statsMemo' = memo.memo
        /\ sortedView' = memo.sorted
        /\ resultsView' = VotingResults(suggs, vs, att)
        /\ winnerView' = calculateWinner(vs, att)
        /\ UNCHANGED <<sortBy, sortDirection>>
        /\ UNCHANGED <<planVars, auxVars>>

\* A mutation whose result reaches the query cache: the views render again.
MutateAndRender ==
    /\ StoreStep
    /\ Len(votes') <= MaxViewVotes
    /\ Render(suggestions', votes', attendance')

\* A render with nothing changed (the parent's own state changed).
Rerender ==
    /\ UNCHANGED storeVars
    /\ Render(suggestions, votes, attendance)

\* handleSort: only RestaurantSorting renders again; its props are the same
\* arrays, so suggestionsWithStats is the memoised one, with the ranks the
\* last sort left on its objects.
handleSort(option) ==
    /\ IF sortBy = option
       THEN /\ sortDirection' = (IF sortDirection = "asc" THEN "desc" ELSE "asc")
            /\ UNCHANGED sortBy
       ELSE /\ sortBy' = option
            /\ sortDirection' =
                  (IF option = "name" \/ option = "author" THEN "asc" ELSE "desc")
    /\ LET memo == sortedSuggestionsMemo(statsMemo, sortBy', sortDirection')
       IN  /\ statsMemo' = memo.memo
           /\ sortedView' = memo.sorted
    /\ UNCHANGED <<resultsView, winnerView>>
    /\ UNCHANGED storeVars
    /\ UNCHANGED <<planVars, auxVars>>

NextView ==
    \/ MutateAndRender
    \/ Rerender
    \/ \E option \in SortOptions : handleSort(option)

SpecView == Init /\ [][NextView]_vars

\* C7: computing the scores, the ranking and the winner again from an
\* unchanged snapshot (a render with nothing changed, whatever sorts were
\* selected before it) gives the same statistics, sorted list, ranks,
\* results and winner as are on display; and a step that only renders or
\* sorts changes no suggestion, vote or attendance row.
C7_RecomputeIsIdempotentAndReadOnly ==
    [][/\ (UNCHANGED storeVars /\ UNCHANGED <<sortBy, sortDirection>>)
             => UNCHANGED viewVars
       /\ (sortBy' # sortBy \/ sortDirection' # sortDirection)
             => UNCHANGED storeVars]_vars

\* Two suggestions are on display sorted by another option than the
\* initial one, in another order than the input order, with a winner.
C7_Witness ==
    /\ Len(sortedView) = 2
    /\ Len(resultsView) = 2
    /\ sortBy # "score"
    /\ sortedView[1].id = suggestions[2].id
    /\ winnerView # 0
\* ------------------------------------------- confirm, override, undo
\* The store as it is once the week has a suggestion and both users have
\* marked themselves attending.
InitPlan ==
    /\ suggestions = <<[id |-> 1, user_id |-> 2, restaurant |-> 1, created_at |-> 1]>>
    /\ votes = <<>>
    /\ attendance = <<[id |-> 1, user_id |-> 1, is_attending |-> TRUE],
                      [id |-> 2, user_id |-> 2, is_attending |-> TRUE]>>
    /\ sortBy = "score"
    /\ sortDirection = "desc"
    /\ statsMemo = <<>>
    /\ sortedView = <<>>
    /\ resultsView = <<>>
    /\ winnerView = 0
    /\ weekPlans = <<>>
    /\ nextPlanId = 1
    /\ weekPlan = [c \in Sessions |-> NoPlan]
    /\ pc = [c \in Sessions |-> "idle"]
    /\ req = [c \in Sessions |-> NoRequest]
    /\ AuxInit

\* getWeekPlan: the row of the week, null when there is none. With several
\* rows the mock returns the first (find) and the .single() query returns
\* no row.
GetWeekPlanResults ==
    IF Len(weekPlans) = 0 THEN {NoPlan}
    ELSE IF Len(weekPlans) = 1 THEN {weekPlans[1]}
    ELSE {weekPlans[1], NoPlan}

PlanIndex(id) == FindIndex({i \in 1..Len(weekPlans) : weekPlans[i].id = id})

\* createWeekPlan(plan): the rows after the insert. Nothing looks for a row
\* of the same week.
createWeekPlan(plan) == Append(weekPlans, plan)

\* updateWeekPlan(id, fields): the rows after the row of that id took the
\* fields.
updateWeekPlan(id, fields) ==
    [i \in 1..Len(weekPlans) |->
        IF weekPlans[i].id = id
        THEN [id |-> id,
              selected_suggestion_id |-> fields.selected_suggestion_id,
              admin_override |-> fields.admin_override,
              final_destination |-> fields.final_destination,
              is_confirmed |-> fields.is_confirmed]
        ELSE weekPlans[i]]

\* deleteWeekPlan(planId): the rows without the row of that id.
deleteWeekPlan(planId) == SelectSeq(weekPlans, LAMBDA p : p.id # planId)

\* What NextWeekView renders for a session from its week plan query data.
ShowAddSuggestionForm(c) == weekPlan[c] = NoPlan
ShowVotingViews(c) == weekPlan[c] = NoPlan
ShowVotingResults(c) == weekPlan[c] # NoPlan
\* AdminControls: the undo button with a plan, else confirm and override
\* once there are suggestions.
ShowUndo(c) == is_admin(BrowserUser(c)) /\ weekPlan[c] # NoPlan
ShowConfirm(c) ==
    is_admin(BrowserUser(c)) /\ weekPlan[c] = NoPlan /\ Len(suggestions) > 0

\* Mutant: the handlers let every user through.
isAdminUser_Everyone(c) == TRUE

\* user?.is_admin of the session's signed-in user.
isAdminUser(c) == is_admin(BrowserUser(c))

\* if (!user?.is_admin) return: the handler returns before it calls anything;
\* the call is noted.
GuardReturn(c, handler) ==
    /\ guardReturned' = guardReturned \cup {<<c, handler>>}
    /\ UNCHANGED invocations
    /\ UNCHANGED <<storeVars, viewVars, planVars, attendanceVars, votingVars, proxyVars>>

\* Mutant: the id the admin picked is dropped and the computed winner stored.
ConfirmParams_IgnoresOverride(suggestionId) ==
    LET selectedSuggestionId == winnerSuggestionId
        found == {i \in 1..Len(suggestions) : suggestions[i].id = selectedSuggestionId}
    IN  [suggestionId |-> suggestionId,
         selectedSuggestionId |-> selectedSuggestionId,
         adminOverride |-> suggestionId # None,
         finalDestination |->
            IF found = {} THEN Unknown ELSE suggestions[FindIndex(found)].restaurant,
         existingPlan |-> NoPlan]

\* handleConfirmSelection: the arguments of the confirm mutation.
ConfirmParams(suggestionId) ==
    LET selectedSuggestionId ==
            IF suggestionId # None THEN suggestionId ELSE winnerSuggestionId
        found == {i \in 1..Len(suggestions) : suggestions[i].id = selectedSuggestionId}
    IN  [suggestionId |-> suggestionId,
         selectedSuggestionId |-> selectedSuggestionId,
         adminOverride |-> suggestionId # None,
         finalDestination |->
            IF found = {} THEN Unknown ELSE suggestions[FindIndex(found)].restaurant,
         existingPlan |-> NoPlan]

PlanFields(r) ==
    [selected_suggestion_id |-> r.selectedSuggestionId,
     admin_override |-> r.adminOverride,
     final_destination |-> r.finalDestination,
     is_confirmed |-> TRUE]

\* executeAction -> handleConfirmSelection -> the mutation up to the answer
\* of getWeekPlan. A session that is not the admin's returns at once.
handleConfirmSelection(c, suggestionId) ==
    /\ pc[c] = "idle"
    /\ suggestionId = None \/ suggestionId \in SuggestionIds
    /\ IF ~isAdminUser(c)
       THEN GuardReturn(c, "confirm")
       ELSE /\ ShowConfirm(c)
            /\ \E existingPlan \in GetWeekPlanResults :
                  req' = [req EXCEPT ![c] =
                            [ConfirmParams(suggestionId) EXCEPT
                                !.existingPlan = existingPlan]]
            /\ pc' = [pc EXCEPT ![c] = "confirm_write"]
            /\ UNCHANGED <<weekPlans, nextPlanId, weekPlan>>
            /\ UNCHANGED storeVars
            /\ UNCHANGED <<viewVars, auxVars>>

\* The mutation found a plan: updateWeekPlan, then onSuccess puts the row in
\* the cache; with the row gone meanwhile the update fails and the cache stays.
ConfirmUpdate(c) ==
    LET k == PlanIndex(req[c].existingPlan.id)
        rows == updateWeekPlan(req[c].existingPlan.id, PlanFields(req[c]))
    IN  /\ pc[c] = "confirm_write"
        /\ req[c].existingPlan # NoPlan
        /\ IF k > 0
           THEN /\ weekPlans' = rows
                /\ weekPlan' = [weekPlan EXCEPT ![c] = rows[k]]
           ELSE UNCHANGED <<weekPlans, weekPlan>>
        /\ pc' = [pc EXCEPT ![c] = "idle"]
        /\ req' = [req EXCEPT ![c] = NoRequest]
        /\ UNCHANGED nextPlanId
        /\ UNCHANGED storeVars
        /\ UNCHANGED <<viewVars, auxVars>>

\* The mutation found no plan: createWeekPlan, then onSuccess puts the row in
\* the cache.
ConfirmCreate(c) ==
    LET fields == PlanFields(req[c])
        newPlan == [id |-> nextPlanId,
                    selected_suggestion_id |-> fields.selected_suggestion_id,
                    admin_override |-> fields.admin_override,
                    final_destination |-> fields.final_destination,
                    is_confirmed |-> fields.is_confirmed]
    IN  /\ pc[c] = "confirm_write"
        /\ req[c].existingPlan = NoPlan
        /\ Len(weekPlans) < MaxPlans
        /\ nextPlanId <= MaxPlanId
        /\ weekPlans' = createWeekPlan(newPlan)
        /\ nextPlanId' = nextPlanId + 1
        /\ weekPlan' = [weekPlan EXCEPT ![c] = newPlan]
        /\ pc' = [pc EXCEPT ![c] = "idle"]
        /\ req' = [req EXCEPT ![c] = NoRequest]
        /\ UNCHANGED storeVars
        /\ UNCHANGED <<viewVars, auxVars>>

\* handleUndoSelection -> deleteWeekPlan(planId); onSuccess clears the cache
\* entry and invalidates the query.
handleUndoSelection(c) ==
    /\ pc[c] = "idle"
    /\ IF ~isAdminUser(c)
       THEN GuardReturn(c, "undo")
       ELSE IF weekPlan[c] = NoPlan
       THEN UNCHANGED vars
       ELSE /\ weekPlans' = deleteWeekPlan(weekPlan[c].id)
            /\ weekPlan' = [weekPlan EXCEPT ![c] = NoPlan]
            /\ pc' = [pc EXCEPT ![c] = "undo_refetch"]
            /\ UNCHANGED <<nextPlanId, req>>
            /\ UNCHANGED storeVars
            /\ UNCHANGED <<viewVars, auxVars>>

\* The refetch that invalidateQueries starts.
UndoRefetch(c) ==
    /\ pc[c] = "undo_refetch"
    /\ \E plan \in GetWeekPlanResults : weekPlan' = [weekPlan EXCEPT ![c] = plan]
    /\ pc' = [pc EXCEPT ![c] = "idle"]
    /\ UNCHANGED <<weekPlans, nextPlanId, req>>
    /\ UNCHANGED storeVars
    /\ UNCHANGED <<viewVars, auxVars>>

\* useWeekPlan: the query loads or reloads the plan.
FetchWeekPlan(c) ==
    /\ pc[c] = "idle"
    /\ \E plan \in GetWeekPlanResults : weekPlan' = [weekPlan EXCEPT ![c] = plan]
    /\ UNCHANGED <<weekPlans, nextPlanId, pc, req>>
    /\ UNCHANGED storeVars
    /\ UNCHANGED <<viewVars, auxVars>>

\* handleAddSuggestion, from the form that is rendered without a plan.
handleAddSuggestion(c, name) ==
    /\ ShowAddSuggestionForm(c)
    /\ addSuggestion(BrowserUser(c), name)
    /\ UNCHANGED planVars
    /\ UNCHANGED <<viewVars, auxVars>>

\* handleVotesUpdate, from the ranking view that is rendered without a plan:
\* one of the upserts of a save.
handleVotesUpdate(c, sid, r) ==
    /\ ShowVotingViews(c)
    /\ upsertVote(BrowserUser(c), sid, r)
    /\ Len(votes') <= MaxPlanVotes
    /\ UNCHANGED planVars
    /\ UNCHANGED <<viewVars, auxVars>>

NextPlan ==
    \/ \E c \in Sessions, sid \in {None} \cup (1..MaxSuggestions) :
          handleConfirmSelection(c, sid)
    \/ \E c \in Sessions : ConfirmUpdate(c)
    \/ \E c \in Sessions : ConfirmCreate(c)
    \/ \E c \in Sessions : handleUndoSelection(c)
    \/ \E c \in Sessions : UndoRefetch(c)
    \/ \E c \in Sessions : FetchWeekPlan(c)
    \/ \E c \in Sessions, n \in Names : handleAddSuggestion(c, n)
    \/ \E c \in Sessions, sid \in 1..MaxSuggestions, r \in Ranks :
          handleVotesUpdate(c, sid, r)

SpecPlan == InitPlan /\ [][NextPlan]_vars
\* A step of session c in which handleConfirmSelection hands its arguments
\* to the mutation.
ConfirmRequested(c) == pc[c] = "idle" /\ pc'[c] = "confirm_write"
\* A step of session c in which the mutation of a confirmation succeeds.
ConfirmSucceeded(c) ==
    pc[c] = "confirm_write" /\ pc'[c] = "idle" /\ weekPlan'[c] # weekPlan[c]

\* C8: a confirmation with an explicit suggestion id results in a WeekPlan
\* with admin_override true, that id as selected_suggestion_id and
\* is_confirmed true, whatever the computed winner is; a confirmation without
\* an id results in one with admin_override false and the computed winner as
\* selected_suggestion_id; neither creates, changes or deletes a vote or an
\* attendance record.
C8_ConfirmRecordsChoiceAndLeavesVotes ==
    [][\A c \in Sessions :
          /\ ConfirmRequested(c) =>
                /\ req'[c].adminOverride = (req'[c].suggestionId # None)
                /\ req'[c].selectedSuggestionId =
                      IF req'[c].suggestionId # None
                      THEN req'[c].suggestionId
                      ELSE calculateWinner(votes, attendance)
                /\ UNCHANGED <<votes, attendance>>
          /\ ConfirmSucceeded(c) =>
                /\ \E k \in 1..Len(weekPlans') :
                      /\ weekPlans'[k] = weekPlan'[c]
                      /\ \A j \in 1..Len(weekPlans') :
                            j # k => weekPlans'[j].id # weekPlan'[c].id
                /\ weekPlan'[c].admin_override = (req[c].suggestionId # None)
                /\ weekPlan'[c].selected_suggestion_id = req[c].selectedSuggestionId
                /\ weekPlan'[c].is_confirmed
                /\ UNCHANGED <<votes, attendance>>]_vars

\* An override stored against a different computed winner, next to votes that
\* are still there, and a session whose confirmation without an id has been
\* stored.
C8_Witness ==
    /\ Len(votes) > 0
    /\ winnerSuggestionId # None
    /\ \E k \in 1..Len(weekPlans) :
          /\ weekPlans[k].admin_override
          /\ weekPlans[k].is_confirmed
          /\ weekPlans[k].selected_suggestion_id # winnerSuggestionId
          /\ weekPlans[k].selected_suggestion_id \in SuggestionIds
    /\ \E c \in Sessions :
          /\ weekPlan[c] # NoPlan
          /\ ~weekPlan[c].admin_override
          /\ weekPlan[c].selected_suggestion_id = winnerSuggestionId

\* C9: after any interleaving of confirm, override and undo operations, two
\* confirmations in flight at the same time included, the store holds at most
\* one WeekPlan for the week.
C9_AtMostOneWeekPlanPerWeek == Len(weekPlans) <= 1

\* A step in which session c's week plan query data is written: by a
\* successful confirmation or by a (re)load.
PlanDataWritten(c) ==
    \/ ConfirmSucceeded(c)
    \/ UndoRefetch(c)
    \/ FetchWeekPlan(c)
\* A step in which session c undoes the plan it shows.
UndoDone(c) == pc[c] = "idle" /\ pc'[c] = "undo_refetch"

\* C10: voting is open exactly while no WeekPlan exists for the week: a
\* session whose plan data has just been written offers the add-suggestion
\* form and the voting views exactly if the store holds no plan, and shows the
\* results otherwise; undo deletes the plan and makes suggestion entry and
\* voting available again; a confirmation after it leaves a plan in the store.
C10_VotingOpenExactlyWhileNoPlanExists ==
    [][\A c \in Sessions :
          /\ PlanDataWritten(c) =>
                /\ ShowAddSuggestionForm(c)' <=> (Len(weekPlans') = 0)
                /\ ShowVotingViews(c)' <=> (Len(weekPlans') = 0)
                /\ ShowVotingResults(c)' <=> (Len(weekPlans') > 0)
          /\ UndoDone(c) =>
                /\ \A k \in 1..Len(weekPlans') : weekPlans'[k].id # weekPlan[c].id
                /\ ShowAddSuggestionForm(c)'
                /\ ShowVotingViews(c)'
          /\ ConfirmCreate(c) => Len(weekPlans') > 0]_vars
\* ------------------------------------------- attendance and its cache
\* What the attendance steps leave alone.
attendanceFrame == <<viewVars, planVars, votingVars, proxyVars, extraVars>>

\* attendance.find((a) => a.user_id === user?.id)?.is_attending ?? false
isUserAttending(b) ==
    LET rows == attendanceCache[b].rows
        k == FindIndex({i \in 1..Len(rows) : rows[i].user_id = BrowserUser(b)})
    IN  IF k = 0 THEN FALSE ELSE rows[k].is_attending

\* useAttendance: the query (re)loads the rows of the week.
FetchAttendance(b) ==
    /\ attendanceCache' =
          [attendanceCache EXCEPT ![b] = [loaded |-> TRUE, rows |-> attendance]]
    /\ UNCHANGED <<attendanceReplies, beforeToggle>>
    /\ UNCHANGED storeVars
    /\ UNCHANGED attendanceFrame

\* handleToggleAttendance -> useToggleAttendance.mutationFn: the upsert of
\* the opposite of what the browser shows; its result travels back.
handleToggleAttendance(b) ==
    LET u == BrowserUser(b)
    IN  /\ Len(attendanceReplies[b]) < MaxReplies
        /\ upsertAttendance(u, ~isUserAttending(b))
        /\ LET k == FindIndex({i \in 1..Len(attendance') : attendance'[i].user_id = u})
           IN  attendanceReplies' =
                  [attendanceReplies EXCEPT ![b] = Append(@, attendance'[k])]
        /\ UNCHANGED <<attendanceCache, beforeToggle>>
        /\ UNCHANGED attendanceFrame

\* Mutant: onSuccess appends the row without looking for the user's entry.
setAttendanceData_AlwaysAppend(old, newAttendance) ==
    [loaded |-> TRUE, rows |-> Append(old.rows, newAttendance)]

\* useToggleAttendance.onSuccess: the updater given to setQueryData.
setAttendanceData(old, newAttendance) ==
    IF ~old.loaded
    THEN [loaded |-> TRUE, rows |-> <<newAttendance>>]
    ELSE IF \E i \in 1..Len(old.rows) : old.rows[i].user_id = newAttendance.user_id
         THEN [loaded |-> TRUE,
               rows |-> Array([i \in 1..Len(old.rows) |->
                          IF old.rows[i].user_id = newAttendance.user_id
                          THEN newAttendance ELSE old.rows[i]])]
         ELSE [loaded |-> TRUE, rows |-> Append(old.rows, newAttendance)]

ToggleSuccess(b) ==
    /\ attendanceReplies[b] # <<>>
    /\ attendanceCache' =
          [attendanceCache EXCEPT ![b] = setAttendanceData(@, Head(attendanceReplies[b]))]
    /\ attendanceReplies' = [attendanceReplies EXCEPT ![b] = Tail(@)]
    /\ beforeToggle' =
          IF isUserAttending(b) /\ ~Head(attendanceReplies[b]).is_attending
          THEN [holder |-> b, rows |-> attendanceCache[b].rows, votes |-> votes,
                suggestions |-> suggestions]
          ELSE beforeToggle
    /\ UNCHANGED storeVars
    /\ UNCHANGED attendanceFrame

NextAttendance ==
    \/ \E b \in Browsers : FetchAttendance(b)
    \/ \E b \in Browsers : handleToggleAttendance(b)
    \/ \E b \in Browsers : ToggleSuccess(b)

SpecAttendance == Init /\ [][NextAttendance]_vars

\* The positions in rows of the attendance records of user u.
AttendanceOfUser(rows, u) == {i \in 1..Len(rows) : rows[i].user_id = u}

\* C12: after any sequence of upsertAttendance calls the store holds at most
\* one attendance record per user for the week, carrying the is_attending
\* value of the most recent upsert for the user, and every browser's
\* attendance cache holds at most one entry per user.
C12_OneAttendancePerUserInStoreAndCache ==
    [][/\ \A u \in Users : Cardinality(AttendanceOfUser(attendance', u)) <= 1
       /\ \A u \in Users, v \in BOOLEAN :
             upsertAttendance(u, v) =>
                /\ Cardinality(AttendanceOfUser(attendance', u)) = 1
                /\ \A i \in AttendanceOfUser(attendance', u) :
                      attendance'[i].is_attending = v
                /\ \A i \in 1..Len(attendance) :
                      /\ attendance'[i].id = attendance[i].id
                      /\ attendance'[i].user_id = attendance[i].user_id
                      /\ attendance[i].user_id # u => attendance'[i] = attendance[i]
       /\ \A b \in Browsers, u \in Users :
             Cardinality(AttendanceOfUser(attendanceCache'[b].rows, u)) <= 1]_vars

\* Both users have a record, one of them switched back to not attending, and
\* a browser whose cache came from a load and took in its own toggles holds
\* both users' entries.
C12_Witness ==
    /\ Len(attendance) = 2
    /\ \E i \in 1..2 : ~attendance[i].is_attending
    /\ \E b \in Browsers :
          /\ Len(attendanceCache[b].rows) = 2
          /\ attendanceCache[b].rows # attendance
          /\ attendanceReplies[b] = <<>>
\* ------------------------------------------------- ranking and saving
\* What the voting steps leave alone.
votingFrame == <<viewVars, planVars, attendanceVars, proxyVars, extraVars>>

\* The store once the week has a suggestion and both users attend, and every
\* browser has loaded the attendance.
InitVoting ==
    /\ suggestions = <<[id |-> 1, user_id |-> 2, restaurant |-> 1, created_at |-> 1]>>
    /\ votes = <<>>
    /\ attendance = <<[id |-> 1, user_id |-> 1, is_attending |-> TRUE],
                      [id |-> 2, user_id |-> 2, is_attending |-> TRUE]>>
    /\ sortBy = "score"
    /\ sortDirection = "desc"
    /\ statsMemo = <<>>
    /\ sortedView = <<>>
    /\ resultsView = <<>>
    /\ winnerView = 0
    /\ weekPlans = <<>>
    /\ nextPlanId = 1
    /\ weekPlan = [c \in Sessions |-> NoPlan]
    /\ pc = [c \in Sessions |-> "idle"]
    /\ req = [c \in Sessions |-> NoRequest]
    /\ attendanceCache = [b \in Browsers |-> [loaded |-> TRUE, rows |-> attendance]]
    /\ attendanceReplies = [b \in Browsers |-> <<>>]
    /\ rankedSuggestions = [b \in Browsers |-> <<>>]
    /\ hasChanges = [b \in Browsers |-> FALSE]
    /\ isSaving = [b \in Browsers |-> FALSE]
    /\ pendingUpserts = [b \in Browsers |-> {}]
    /\ searchType = "nearby"
    /\ apiKeySet = TRUE
    /\ userLat = 0
    /\ ProxyIdle
    /\ ExtraInit

\* The display rank the effect gives suggestion suggs[i] for user u:
\* maxRank - rank + 1 of the user's vote, 0 without one.
userRank(suggs, vs, u, i) ==
    LET k == FindIndex({j \in 1..Len(vs) :
                 vs[j].user_id = u /\ vs[j].suggestion_id = suggs[i].id})
    IN  IF k = 0 THEN 0 ELSE Len(suggs) - vs[k].rank + 1

\* The comparator of ranked.sort in the effect.
RankedComparator(suggs, vs, u) ==
    [i \in 1..Len(suggs) |-> [j \in 1..Len(suggs) |->
        LET a == userRank(suggs, vs, u, i)
            b == userRank(suggs, vs, u, j)
        IN  IF a = 0 /\ b = 0 THEN suggs[i].created_at - suggs[j].created_at
            ELSE IF a = 0 THEN 1
            ELSE IF b = 0 THEN 0 - 1
            ELSE b - a]]

\* useEffect([suggestions, votes, user]): the ordering from the loaded data.
InitialRanking(suggs, vs, u) ==
    LET ranked == Sort(suggs, RankedComparator(suggs, vs, u))
    IN  Array([i \in 1..Len(ranked) |-> ranked[i].id])

\* The effect runs when the suggestions or votes of the browser change.
LoadRanking(b) ==
    /\ Len(suggestions) > 0
    /\ rankedSuggestions' =
          [rankedSuggestions EXCEPT ![b] = InitialRanking(suggestions, votes, BrowserUser(b))]
    /\ hasChanges' = [hasChanges EXCEPT ![b] = FALSE]
    /\ UNCHANGED <<isSaving, pendingUpserts>>
    /\ UNCHANGED storeVars
    /\ UNCHANGED votingFrame

\* seq after splice(from, 1) and splice(to, 0, item), positions from 1.
Splice(seq, from, to) ==
    LET without == SubSeq(seq, 1, from - 1) \o SubSeq(seq, from + 1, Len(seq))
    IN  SubSeq(without, 1, to - 1) \o <<seq[from]>> \o SubSeq(without, to, Len(without))

handleDrop(b, draggedIndex, dropIndex) ==
    /\ isUserAttending(b)
    /\ draggedIndex \in 1..Len(rankedSuggestions[b])
    /\ dropIndex \in 1..Len(rankedSuggestions[b])
    /\ draggedIndex # dropIndex
    /\ rankedSuggestions' =
          [rankedSuggestions EXCEPT ![b] = Splice(@, draggedIndex, dropIndex)]
    /\ hasChanges' = [hasChanges EXCEPT ![b] = TRUE]
    /\ UNCHANGED <<isSaving, pendingUpserts>>
    /\ UNCHANGED storeVars
    /\ UNCHANGED votingFrame

\* Mutant: the position is submitted as the rank (top choice gets 1).
newVotes_RankIsPosition(ranked, u) ==
    Array([i \in 1..Len(ranked) |->
        [user_id |-> u, suggestion_id |-> ranked[i], rank |-> i]])

\* handleSave's newVotes (rank = maxRank - index, index from 0) with the
\* user id handleVotesUpdate adds.
newVotes(ranked, u) ==
    LET maxRank == Len(ranked)
    IN  Array([i \in 1..Len(ranked) |->
            [user_id |-> u, suggestion_id |-> ranked[i], rank |-> maxRank - (i - 1)]])

\* handleSave -> handleVotesUpdate -> useUpdateVotes.mutationFn: every vote's
\* upsertVote call starts.
handleSave(b) ==
    LET submitted == newVotes(rankedSuggestions[b], BrowserUser(b))
        calls == {[vote |-> submitted[i], awaited |-> TRUE] : i \in 1..Len(submitted)}
    IN  /\ isUserAttending(b)
        /\ hasChanges[b]
        /\ ~isSaving[b]
        /\ Cardinality(pendingUpserts[b] \cup calls) <= MaxPending
        /\ pendingUpserts' = [pendingUpserts EXCEPT ![b] = @ \cup calls]
        /\ isSaving' = [isSaving EXCEPT ![b] = TRUE]
        /\ UNCHANGED <<rankedSuggestions, hasChanges>>
        /\ UNCHANGED storeVars
        /\ UNCHANGED votingFrame

\* One upsertVote call is carried out. When it is the last the save waits
\* for, Promise.all resolves: setHasChanges(false), setIsSaving(false).
UpsertDone(b, call) ==
    LET left == pendingUpserts[b] \ {call}
        last == call.awaited /\ \A c \in left : ~c.awaited
    IN  /\ call \in pendingUpserts[b]
        /\ upsertVote(call.vote.user_id, call.vote.suggestion_id, call.vote.rank)
        /\ pendingUpserts' = [pendingUpserts EXCEPT ![b] = left]
        /\ isSaving' = [isSaving EXCEPT ![b] = IF last THEN FALSE ELSE @]
        /\ hasChanges' = [hasChanges EXCEPT ![b] = IF last THEN FALSE ELSE @]
        /\ UNCHANGED rankedSuggestions
        /\ UNCHANGED votingFrame

\* One upsertVote call fails. Promise.all rejects with the first failure of
\* a save: setIsSaving(false), hasChanges stays; the save's other calls go on
\* with nothing waiting for them.
UpsertFailed(b, call) ==
    LET left == pendingUpserts[b] \ {call}
    IN  /\ call \in pendingUpserts[b]
        /\ pendingUpserts' =
              [pendingUpserts EXCEPT ![b] =
                  IF call.awaited
                  THEN {[vote |-> c.vote, awaited |-> FALSE] : c \in left}
                  ELSE left]
        /\ isSaving' = [isSaving EXCEPT ![b] = IF call.awaited THEN FALSE ELSE @]
        /\ UNCHANGED <<rankedSuggestions, hasChanges>>
        /\ UNCHANGED storeVars
        /\ UNCHANGED votingFrame

\* Somebody adds a suggestion while rankings are made and saved.
SuggestionAdded(b, name) ==
    /\ addSuggestion(BrowserUser(b), name)
    /\ UNCHANGED votingVars
    /\ UNCHANGED votingFrame

\* The upsertVote calls a browser could have under way.
Calls ==
    [vote : [user_id : Users, suggestion_id : 1..MaxSuggestions, rank : 1..MaxSuggestions],
     awaited : BOOLEAN]

\* The browsers that rank and save: two tabs of the same user.
Voters == Sessions

NextVoting ==
    \/ \E b \in Voters : LoadRanking(b)
    \/ \E b \in Voters, i \in 1..MaxSuggestions, j \in 1..MaxSuggestions :
          handleDrop(b, i, j)
    \/ \E b \in Voters : handleSave(b)
    \/ \E b \in Voters, call \in Calls : UpsertDone(b, call)
    \/ \E b \in Voters, call \in Calls : UpsertFailed(b, call)
    \/ \E b \in Voters, n \in Names : SuggestionAdded(b, n)

SpecVoting == InitVoting /\ [][NextVoting]_vars
\* A step in which browser b's save starts.
SaveStarted(b) == ~isSaving[b] /\ isSaving'[b]
\* The votes whose upserts the running save of browser b waits for.
AwaitedVotes(b) == {c.vote : c \in {d \in pendingUpserts[b] : d.awaited}}

\* C13: a save of an ordering of N suggestions submits the suggestion at
\* 0-based position i with rank N - i: the submitted ranks are a permutation
\* of 1..N, the top choice has rank N and the last choice rank 1, and every
\* submitted vote carries the saving user's id.
C13_SaveSubmitsRankNMinusIndex ==
    [][\A b \in Browsers :
          SaveStarted(b) =>
             LET ranked == rankedSuggestions[b]
                 N == Len(ranked)
                 submitted == AwaitedVotes(b)'
             IN  /\ Cardinality(submitted) = N
                 /\ \A i \in 0..(N - 1) :
                       \E v \in submitted :
                          /\ v.suggestion_id = ranked[i + 1]
                          /\ v.rank = N - i
                 /\ {v.rank : v \in submitted} = 1..N
                 /\ \A v \in submitted :
                       /\ v.user_id = BrowserUser(b)
                       /\ v.suggestion_id = ranked[1] => v.rank = N
                       /\ v.suggestion_id = ranked[N] => v.rank = 1]_vars

\* A save under way of the ordering (second suggestion, first suggestion):
\* the second is submitted with rank 2, the first with rank 1.
C13_Witness ==
    \E b \in Browsers :
       /\ isSaving[b]
       /\ rankedSuggestions[b] = <<2, 1>>
       /\ AwaitedVotes(b) =
             {[user_id |-> BrowserUser(b), suggestion_id |-> 2, rank |-> 2],
              [user_id |-> BrowserUser(b), suggestion_id |-> 1, rank |-> 1]}

\* The positions in votes of the votes of user u.
VotesOfUser(u) == {i \in 1..Len(votes) : votes[i].user_id = u}

\* C14: after any sequence of vote saves by a user (saves of which some
\* upserts fail and overlapping saves included), once no upsert is under way
\* the ranks of the user's stored votes are a permutation of 1..N, N the
\* number of suggestions the user has a stored vote for.
C14_StoredRanksArePermutation ==
    (\A b \in Browsers : pendingUpserts[b] = {}) =>
        \A u \in Users :
           /\ {votes[i].rank : i \in VotesOfUser(u)} = 1..Cardinality(VotesOfUser(u))
           /\ \A i, j \in VotesOfUser(u) :
                 votes[i].suggestion_id = votes[j].suggestion_id => i = j
\* ------------------------------------------------------ places proxy
\* What the proxy steps leave alone.
proxyFrame == <<storeVars, viewVars, planVars, attendanceVars, votingVars, extraVars>>

maxPages == 3
\* The delay given to setTimeout before a continuation request, ms.
PageDelayMs == 2000
\* Earth's radius in meters.
R == 6371000

\* "reviews" stands for any search type the handler does not know.
SearchTypes == {"nearby", "textsearch", "details", "reviews"}
\* data.status of an upstream answer.
Statuses == {"OK", "ZERO_RESULTS", "INVALID_REQUEST"}
\* Latitudes of the caller and of places, thousandths of a degree.
UserLats == {0, 1}
Lats == (0 - MaxOffset)..MaxOffset
\* data.results of one upstream answer.
Pages == UNION {[1..n -> Lats] : n \in 0..MaxPageResults}

InitProxy ==
    /\ suggestions = <<>>
    /\ votes = <<>>
    /\ attendance = <<>>
    /\ sortBy = "score"
    /\ sortDirection = "desc"
    /\ statsMemo = <<>>
    /\ sortedView = <<>>
    /\ resultsView = <<>>
    /\ winnerView = 0
    /\ weekPlans = <<>>
    /\ nextPlanId = 1
    /\ weekPlan = [c \in Sessions |-> NoPlan]
    /\ pc = [c \in Sessions |-> "idle"]
    /\ req = [c \in Sessions |-> NoRequest]
    /\ attendanceCache = [b \in Browsers |-> NotLoaded]
    /\ attendanceReplies = [b \in Browsers |-> <<>>]
    /\ rankedSuggestions = [b \in Browsers |-> <<>>]
    /\ hasChanges = [b \in Browsers |-> FALSE]
    /\ isSaving = [b \in Browsers |-> FALSE]
    /\ pendingUpserts = [b \in Browsers |-> {}]
    /\ searchType \in SearchTypes
    /\ apiKeySet \in BOOLEAN
    /\ userLat \in UserLats
    /\ ProxyIdle
    /\ ExtraInit

\* Mutant: Math.floor in the place of Math.round.
Round_Floor(num, den) == num \div den

\* Math.round of the non-negative quotient num / den.
Round(num, den) == (2 * num + den) \div (2 * den)

\* calculateDistance for two points on one meridian, where the haversine
\* formula gives R times the difference of the latitudes in radians; the
\* latitudes are in thousandths of a degree and pi is 355 / 113.
calculateDistance(lat1, lat2) ==
    LET d == IF lat2 >= lat1 THEN lat2 - lat1 ELSE lat1 - lat2
    IN  [num |-> (R \div 1000) * 355 * d, den |-> 113 * 180]

\* allResults.map: each result with its distance_meters.
resultsWithDistance(all, lat) ==
    Array([i \in 1..Len(all) |->
        [lat |-> all[i],
         distance_meters |->
            Round(calculateDistance(lat, all[i]).num, calculateDistance(lat, all[i]).den)]])

\* Mutant: the comparator's operands are swapped (farthest first).
DistanceComparator_Descending(seq) ==
    [i \in 1..Len(seq) |-> [j \in 1..Len(seq) |->
        seq[j].distance_meters - seq[i].distance_meters]]

\* (a, b) => a.distance_meters - b.distance_meters
DistanceComparator(seq) ==
    [i \in 1..Len(seq) |-> [j \in 1..Len(seq) |->
        seq[i].distance_meters - seq[j].distance_meters]]

\* The Response of a finished nearby search.
NearbyResponse(all, lat) ==
    LET withDistance == resultsWithDistance(all, lat)
        sorted == Sort(withDistance, DistanceComparator(withDistance))
    IN  [status |-> 200, body_status |-> "OK", error |-> "", results |-> sorted,
         total_results |-> Len(sorted)]

\* The Response of the catch block.
ErrorResponse(message) ==
    [status |-> 400, body_status |-> "ERROR", error |-> message, results |-> <<>>,
     total_results |-> 0]

\* Mutant: the handler goes on without looking at the key.
ConfigError_NeverChecked(keySet) == FALSE

\* if (!GOOGLE_PLACES_API_KEY) throw
ConfigError(keySet) == ~keySet

\* Mutant: the loop goes on as long as there is a token.
ContinuePaging_NoLimit(token, count) == token

\* The condition of the while loop.
ContinuePaging(token, count) == token /\ count < maxPages

\* Mutant: the next page is requested as soon as the timer is set.
TimerDue_NoWait(setAt) == setAt

\* The earliest time a timer set at setAt with the page delay fires.
TimerDue(setAt) == setAt + PageDelayMs

\* Mutant: a failed continuation page throws as a failed first page does.
PageOutcome_ContinuationFatal(first, status) ==
    IF status = "OK" THEN "collect" ELSE "throw"

\* Mutant: a failed first page only ends the paging.
PageOutcome_FirstPageLenient(first, status) ==
    IF status = "OK" THEN "collect" ELSE "break"

\* What the handler does with a page of the nearby search by its status.
PageOutcome(first, status) ==
    IF status = "OK" THEN "collect" ELSE IF first THEN "throw" ELSE "break"

\* The handler takes up the request: the key, then the search type, then the
\* first (or only) upstream request.
ProxyStart ==
    /\ ppc = "start"
    /\ IF ConfigError(apiKeySet)
       THEN /\ response' = ErrorResponse("Google Places API key not configured")
            /\ ppc' = "done"
            /\ UNCHANGED fetchCount
       ELSE IF searchType = "nearby"
       THEN /\ fetchCount' = fetchCount + 1
            /\ ppc' = "first_fetch"
            /\ UNCHANGED response
       ELSE IF searchType \in {"textsearch", "details"}
       THEN /\ fetchCount' = fetchCount + 1
            /\ ppc' = "single_fetch"
            /\ UNCHANGED response
       ELSE /\ response' = ErrorResponse("Unknown search type")
            /\ ppc' = "done"
            /\ UNCHANGED fetchCount
    /\ UNCHANGED <<searchType, apiKeySet, userLat, pageToken, pageCount, allResults,
                   data, received, timersStarted, now, timerSetAt, lastResponseAt>>
    /\ UNCHANGED proxyFrame

\* A page of the nearby search arrives: the first after the initial request,
\* a later one inside the loop.
PageArrives(status, results, token) ==
    LET first == ppc = "first_fetch"
        outcome == PageOutcome(first, status)
        collected == allResults \o results
    IN  /\ ppc \in {"first_fetch", "next_fetch"}
        /\ data' = [status |-> status, results |-> results, next_page_token |-> token]
        /\ received' = received + 1
        /\ lastResponseAt' = now
        /\ IF outcome = "collect"
           THEN /\ allResults' = collected
                /\ pageToken' = token
                /\ pageCount' = pageCount + 1
                /\ IF ContinuePaging(token, pageCount + 1)
                   THEN /\ timerSetAt' = now
                        /\ timersStarted' = timersStarted + 1
                        /\ ppc' = "delay"
                        /\ UNCHANGED response
                   ELSE /\ response' = NearbyResponse(collected, userLat)
                        /\ ppc' = "done"
                        /\ UNCHANGED <<timerSetAt, timersStarted>>
           ELSE /\ response' =
                      IF outcome = "throw"
                      THEN ErrorResponse("Places API error")
                      ELSE NearbyResponse(allResults, userLat)
                /\ ppc' = "done"
                /\ UNCHANGED <<allResults, pageToken, pageCount, timerSetAt, timersStarted>>
        /\ UNCHANGED <<searchType, apiKeySet, userLat, fetchCount, now>>
        /\ UNCHANGED proxyFrame

\* The timer of the loop fires and the continuation request is sent.
TimerFires ==
    /\ ppc = "delay"
    /\ now >= TimerDue(timerSetAt)
    /\ fetchCount' = fetchCount + 1
    /\ ppc' = "next_fetch"
    /\ UNCHANGED <<searchType, apiKeySet, userLat, pageToken, pageCount, allResults,
                   data, response, received, timersStarted, now, timerSetAt,
                   lastResponseAt>>
    /\ UNCHANGED proxyFrame

\* fetch or response.json() rejects: the catch block answers.
FetchThrows ==
    /\ ppc \in {"first_fetch", "next_fetch", "single_fetch"}
    /\ response' = ErrorResponse("fetch failed")
    /\ ppc' = "done"
    /\ UNCHANGED <<searchType, apiKeySet, userLat, pageToken, pageCount, allResults,
                   data, fetchCount, received, timersStarted, now, timerSetAt,
                   lastResponseAt>>
    /\ UNCHANGED proxyFrame

\* The answer of a text search or details request: passed on when
\* response.ok, an error otherwise.
SingleArrives(ok, status) ==
    /\ ppc = "single_fetch"
    /\ data' = [status |-> status, results |-> <<>>, next_page_token |-> FALSE]
    /\ received' = received + 1
    /\ lastResponseAt' = now
    /\ response' =
          IF ok
          THEN [status |-> 200, body_status |-> status, error |-> "", results |-> <<>>,
                total_results |-> 0]
          ELSE ErrorResponse("HTTP error")
    /\ ppc' = "done"
    /\ UNCHANGED <<searchType, apiKeySet, userLat, pageToken, pageCount, allResults,
                   fetchCount, timersStarted, now, timerSetAt>>
    /\ UNCHANGED proxyFrame

\* Time passes while the handler waits for an answer or for the timer.
Tick ==
    /\ ppc \in {"first_fetch", "next_fetch", "single_fetch", "delay"}
    /\ now + TickMs <= MaxTime
    /\ now' = now + TickMs
    /\ UNCHANGED <<searchType, apiKeySet, userLat, ppc, pageToken, pageCount,
                   allResults, data, response, fetchCount, received, timersStarted,
                   timerSetAt, lastResponseAt>>
    /\ UNCHANGED proxyFrame

NextProxy ==
    \/ ProxyStart
    \/ \E status \in Statuses, results \in Pages, token \in BOOLEAN :
          PageArrives(status, results, token)
    \/ TimerFires
    \/ FetchThrows
    \/ \E ok \in BOOLEAN, status \in Statuses : SingleArrives(ok, status)
    \/ Tick

SpecProxy == InitProxy /\ [][NextProxy]_vars
\* C15: a nearby search never issues more than 3 upstream page fetches (the
\* initial one and at most two continuations), whatever tokens and statuses
\* the upstream returns.
C15_AtMostThreePageFetches == fetchCount <= 3

\* A finished search that fetched three pages and whose third page still
\* carried a continuation token.
C15_Witness ==
    /\ searchType = "nearby"
    /\ ppc = "done"
    /\ fetchCount = 3
    /\ received = 3
    /\ data.status = "OK"
    /\ data.next_page_token
    /\ response.status = 200

\* A step in which a continuation page is requested.
ContinuationFetched == fetchCount >= 1 /\ fetchCount' = fetchCount + 1

\* C16: every continuation fetch comes after a wait of at least 2000 ms that
\* started no earlier than the arrival of the previous page's answer; none
\* is issued before that wait is over.
C16_ContinuationWaitsTwoSeconds ==
    [][ContinuationFetched =>
          /\ received = fetchCount
          /\ timersStarted = fetchCount
          /\ timerSetAt >= lastResponseAt
          /\ now >= timerSetAt + 2000
          /\ now >= lastResponseAt + 2000]_vars

\* The third page has just been requested, exactly 2000 ms after the second
\* page's answer.
C16_Witness ==
    /\ ppc = "next_fetch"
    /\ fetchCount = 3
    /\ received = 2
    /\ lastResponseAt > 0
    /\ now = lastResponseAt + 2000

\* How often x occurs in seq.
Count(seq, x) == Cardinality({i \in 1..Len(seq) : seq[i] = x})

\* A step in which the answer to the k-th page request arrives.
FirstPageAnswered == ppc = "first_fetch" /\ received' = received + 1
ContinuationAnswered == ppc = "next_fetch" /\ received' = received + 1

\* C17: a continuation page with a status other than success ends the
\* paging without failing the search: no further page is fetched and the
\* answer is a success with exactly the results of the pages before it.
C17_FailedContinuationKeepsEarlierPages ==
    [][/\ (ContinuationAnswered /\ data'.status # "OK") =>
             /\ ppc' = "done"
             /\ response'.status = 200
             /\ response'.body_status = "OK"
             /\ response'.total_results = Len(allResults)
             /\ Len(response'.results) = Len(allResults)
             /\ \A x \in Lats :
                   Count([i \in 1..Len(response'.results) |-> response'.results[i].lat], x)
                      = Count(allResults, x)
             /\ UNCHANGED <<fetchCount, timersStarted, allResults>>
       /\ (ppc = "done" /\ searchType = "nearby" /\ data.status # "OK" /\ received > 1) =>
             UNCHANGED <<fetchCount, response>>]_vars

\* The third page failed after two pages with one result each: the search
\* answered 200 with the two results.
C17_Witness ==
    /\ ppc = "done"
    /\ received = 3
    /\ data.status # "OK"
    /\ data.results # <<>>
    /\ response.status = 200
    /\ Len(response.results) = 2

\* C18: a first page with a status other than success fails the whole
\* search: the caller gets HTTP 400 with an error message and no results,
\* and no continuation fetch or pagination delay takes place.
C18_FailedFirstPageIsFatal ==
    [][/\ (FirstPageAnswered /\ data'.status # "OK") =>
             /\ ppc' = "done"
             /\ response'.status = 400
             /\ response'.body_status = "ERROR"
             /\ response'.error # ""
             /\ response'.results = <<>>
             /\ fetchCount' = 1
             /\ timersStarted' = 0
       /\ (ppc = "done" /\ searchType = "nearby" /\ received = 1 /\ data.status # "OK") =>
             UNCHANGED <<fetchCount, timersStarted, response>>]_vars

\* The first page failed although it carried results and a continuation
\* token: the search answered 400 after one fetch and no delay.
C18_Witness ==
    /\ searchType = "nearby"
    /\ ppc = "done"
    /\ received = 1
    /\ data.status # "OK"
    /\ data.next_page_token
    /\ data.results # <<>>
    /\ response.status = 400
    /\ fetchCount = 1
    /\ timersStarted = 0

\* C19: without the upstream API key every operation (nearby, text search,
\* details) answers with the configuration error and issues no upstream
\* request.
C19_MissingKeyFailsBeforeAnyFetch ==
    ~apiKeySet =>
        /\ fetchCount = 0
        /\ received = 0
        /\ ppc \in {"start", "done"}
        /\ ppc = "done" =>
              /\ response.status = 400
              /\ response.body_status = "ERROR"
              /\ response.error = "Google Places API key not configured"

\* A text search answered with the configuration error.
C19_Witness ==
    /\ ~apiKeySet
    /\ searchType = "textsearch"
    /\ ppc = "done"
    /\ response.status = 400
    /\ fetchCount = 0

\* C20: the results of a successful nearby search are non-decreasing in
\* distance_meters from the first to the last, in whatever order the pages
\* listed them.
C20_ResultsAscendInDistance ==
    (searchType = "nearby" /\ ppc = "done" /\ response.status = 200) =>
        \A i, j \in 1..Len(response.results) :
           i < j => response.results[i].distance_meters <= response.results[j].distance_meters

\* Three pages listed their places from the farthest to the nearest, and the
\* answer lists them from the nearest to the farthest.
C20_Witness ==
    /\ searchType = "nearby"
    /\ ppc = "done"
    /\ response.status = 200
    /\ Len(allResults) = 3
    /\ Len(response.results) = 3
    /\ LET d == resultsWithDistance(allResults, userLat)
       IN  d[1].distance_meters > d[2].distance_meters
           /\ d[2].distance_meters > d[3].distance_meters
    /\ response.results[1].distance_meters < response.results[3].distance_meters
\* A step that ends the wait for a continuation page with an upstream
\* error: a page with a status other than success, or a fetch that rejects.
ContinuationErrored ==
    /\ ppc = "next_fetch"
    /\ ppc' = "done"
    /\ \/ received' = received
       \/ received' = received + 1 /\ data'.status # "OK"

\* C21: any upstream error on a continuation page of a nearby search, a
\* status other than success or a failure of the fetch itself, truncates the
\* paging and is answered with a success holding the results of the pages
\* fetched before, never with an error.
C21_ContinuationErrorsDegradeGracefully ==
    [][ContinuationErrored =>
          /\ response'.status = 200
          /\ response'.body_status = "OK"
          /\ response'.total_results = Len(allResults)
          /\ Len(response'.results) = Len(allResults)]_vars
\* The week with one suggestion and no plan, open in the admin's two
\* sessions and in a member's.
InitAdmin ==
    /\ suggestions = <<[id |-> 1, user_id |-> 2, restaurant |-> 1, created_at |-> 1]>>
    /\ votes = <<>>
    /\ attendance = <<[id |-> 1, user_id |-> 1, is_attending |-> TRUE],
                      [id |-> 2, user_id |-> 2, is_attending |-> TRUE]>>
    /\ sortBy = "score"
    /\ sortDirection = "desc"
    /\ statsMemo = <<>>
    /\ sortedView = <<>>
    /\ resultsView = <<>>
    /\ winnerView = 0
    /\ weekPlans = <<>>
    /\ nextPlanId = 1
    /\ weekPlan = [c \in Browsers |-> NoPlan]
    /\ pc = [c \in Browsers |-> "idle"]
    /\ req = [c \in Browsers |-> NoRequest]
    /\ AuxInit

\* The confirmation flow with every browser calling the handlers; the
\* member's calls of the confirm and undo handlers are calls past the
\* interface, which renders the admin controls for admins only. The
\* suggestions and votes stay as they are.
NextAdmin ==
    \/ \E c \in Browsers, sid \in {None} \cup (1..MaxSuggestions) :
          handleConfirmSelection(c, sid)
    \/ \E c \in Browsers : ConfirmUpdate(c)
    \/ \E c \in Browsers : ConfirmCreate(c)
    \/ \E c \in Browsers : handleUndoSelection(c)
    \/ \E c \in Browsers : UndoRefetch(c)
    \/ \E c \in Browsers : FetchWeekPlan(c)

SpecAdmin == InitAdmin /\ [][NextAdmin]_vars

\* The browsers whose user is not an admin.
NonAdmins == {c \in Browsers : ~is_admin(BrowserUser(c))}

\* C22: a user who is not an admin never creates, updates or deletes a
\* WeekPlan: no mutation of such a user is ever under way, and every step
\* that changes the stored plans is a step of an admin's confirmation or
\* undo.
C22_OnlyAdminsChangeWeekPlans ==
    [][/\ \A c \in NonAdmins : pc'[c] = "idle" /\ req'[c] = NoRequest
       /\ weekPlans' # weekPlans =>
             \E c \in Browsers \ NonAdmins :
                \/ pc[c] = "confirm_write" /\ pc'[c] = "idle"
                \/ UndoDone(c)]_vars

\* The member has called the confirm handler and, with a plan loaded, the
\* undo handler, and the plan is still stored.
C22_Witness ==
    /\ weekPlans # <<>>
    /\ \E c \in NonAdmins :
          /\ weekPlan[c] # NoPlan
          /\ weekPlan[c] = weekPlans[1]
          /\ <<c, "confirm">> \in guardReturned
          /\ <<c, "undo">> \in guardReturned
\* Two nearby searches handled at the same time. Every invocation of the
\* handler runs the code of the single search above; the steps of the two
\* interleave at every await.
concurrentFrame ==
    <<storeVars, viewVars, planVars, attendanceVars, votingVars, guardReturned,
      searchType, apiKeySet, userLat, ppc, pageToken, pageCount, allResults, data,
      response, fetchCount, received, timersStarted, timerSetAt, lastResponseAt>>

\* params.lat of each request.
RequestLat(r) == r - 1
\* The places the upstream lists for a request (the latitude of each): the
\* two searches are for different areas.
PlacesOf(r) == {r}
PagesOf(r) == UNION {[1..n -> PlacesOf(r)] : n \in 0..MaxPageResults}
ConcurrentPages == UNION {PagesOf(r) : r \in Requests}

InitConcurrent ==
    /\ suggestions = <<>>
    /\ votes = <<>>
    /\ attendance = <<>>
    /\ sortBy = "score"
    /\ sortDirection = "desc"
    /\ statsMemo = <<>>
    /\ sortedView = <<>>
    /\ resultsView = <<>>
    /\ winnerView = 0
    /\ weekPlans = <<>>
    /\ nextPlanId = 1
    /\ weekPlan = [c \in Sessions |-> NoPlan]
    /\ pc = [c \in Sessions |-> "idle"]
    /\ req = [c \in Sessions |-> NoRequest]
    /\ attendanceCache = [b \in Browsers |-> NotLoaded]
    /\ attendanceReplies = [b \in Browsers |-> <<>>]
    /\ rankedSuggestions = [b \in Browsers |-> <<>>]
    /\ hasChanges = [b \in Browsers |-> FALSE]
    /\ isSaving = [b \in Browsers |-> FALSE]
    /\ pendingUpserts = [b \in Browsers |-> {}]
    /\ searchType = "nearby"
    /\ apiKeySet = TRUE
    /\ userLat = 0
    /\ ProxyIdle
    /\ ExtraInit

\* Mutant: allResults is declared once for the module, so every invocation
\* uses the same array.
AccumulatorOf_ModuleLevel(r) == 1

\* The invocation whose allResults the code of request r reads and writes:
\* its own, as allResults is declared inside the handler.
AccumulatorOf(r) == r

InFlight(r) == invocations[r].ppc \in {"first_fetch", "next_fetch", "delay"}

\* The request arrives: let allResults = [], then the first page is
\* requested.
StartNearby(r) ==
    LET cleared == [invocations EXCEPT ![AccumulatorOf(r)].allResults = <<>>]
    IN  /\ invocations[r].ppc = "start"
        /\ invocations' = [cleared EXCEPT ![r].ppc = "first_fetch"]
        /\ UNCHANGED now
        /\ UNCHANGED concurrentFrame

\* A page of request r arrives.
PageArrivesFor(r, status, results, token) ==
    LET me == invocations[r]
        acc == AccumulatorOf(r)
        first == me.ppc = "first_fetch"
        outcome == PageOutcome(first, status)
        collected == IF first THEN results ELSE invocations[acc].allResults \o results
        seen == [invocations EXCEPT
                    ![r].overlapped = @ \/ \E o \in Requests \ {r} : InFlight(o)]
    IN  /\ me.ppc \in {"first_fetch", "next_fetch"}
        /\ results \in PagesOf(r)
        /\ IF outcome = "collect"
           THEN LET stored == [seen EXCEPT ![acc].allResults = collected]
                IN  IF ContinuePaging(token, me.pageCount + 1)
                    THEN invocations' =
                            [stored EXCEPT ![r].pageToken = token,
                                           ![r].pageCount = me.pageCount + 1,
                                           ![r].fetched = me.fetched \o results,
                                           ![r].timerSetAt = now,
                                           ![r].ppc = "delay"]
                    ELSE invocations' =
                            [stored EXCEPT ![r].pageToken = token,
                                           ![r].pageCount = me.pageCount + 1,
                                           ![r].fetched = me.fetched \o results,
                                           ![r].response =
                                               NearbyResponse(collected, RequestLat(r)),
                                           ![r].ppc = "done"]
           ELSE invocations' =
                   [seen EXCEPT ![r].response =
                                    IF outcome = "throw"
                                    THEN ErrorResponse("Places API error")
                                    ELSE NearbyResponse(invocations[acc].allResults,
                                                        RequestLat(r)),
                                ![r].ppc = "done"]
        /\ UNCHANGED now
        /\ UNCHANGED concurrentFrame

\* The timer of request r fires and its continuation request is sent.
TimerFiresFor(r) ==
    /\ invocations[r].ppc = "delay"
    /\ now >= TimerDue(invocations[r].timerSetAt)
    /\ invocations' = [invocations EXCEPT ![r].ppc = "next_fetch"]
    /\ UNCHANGED now
    /\ UNCHANGED concurrentFrame

\* fetch or response.json() of request r rejects: its catch block answers.
FetchThrowsFor(r) ==
    /\ invocations[r].ppc \in {"first_fetch", "next_fetch"}
    /\ invocations' = [invocations EXCEPT ![r].response = ErrorResponse("fetch failed"),
                                          ![r].ppc = "done"]
    /\ UNCHANGED now
    /\ UNCHANGED concurrentFrame

\* Time passes while a request waits for an answer or for its timer.
TickConcurrent ==
    /\ \E r \in Requests : InFlight(r)
    /\ now + TickMs <= MaxTime
    /\ now' = now + TickMs
    /\ UNCHANGED invocations
    /\ UNCHANGED concurrentFrame

NextConcurrent ==
    \/ \E r \in Requests : StartNearby(r)
    \/ \E r \in Requests, status \in Statuses, results \in ConcurrentPages,
          token \in BOOLEAN :
          PageArrivesFor(r, status, results, token)
    \/ \E r \in Requests : TimerFiresFor(r)
    \/ \E r \in Requests : FetchThrowsFor(r)
    \/ TickConcurrent

SpecConcurrent == InitConcurrent /\ [][NextConcurrent]_vars

ResponseLats(resp) == [i \in 1..Len(resp.results) |-> resp.results[i].lat]

\* C23: two nearby searches in flight at the same time do not share an
\* accumulator: a successful answer holds exactly the results of the pages
\* fetched for its own request, and none of the other request.
C23_EachSearchAnswersItsOwnPages ==
    \A r \in Requests :
       (invocations[r].ppc = "done" /\ invocations[r].response.status = 200) =>
          /\ Len(invocations[r].response.results) = Len(invocations[r].fetched)
          /\ \A x \in UNION {PlacesOf(o) : o \in Requests} :
                Count(ResponseLats(invocations[r].response), x)
                   = Count(invocations[r].fetched, x)
          /\ \A i \in 1..Len(invocations[r].response.results) :
                invocations[r].response.results[i].lat \in PlacesOf(r)

\* Both searches answered with the results of two pages or more, and each
\* received a page while the other was in flight.
C23_Witness ==
    \A r \in Requests :
       /\ invocations[r].ppc = "done"
       /\ invocations[r].response.status = 200
       /\ invocations[r].overlapped
       /\ invocations[r].pageCount >= 2
       /\ Len(invocations[r].response.results) >= 2
\* --------------------------------------- attendance toggles and scores
\* The week with two suggestions and both users attending, open in one
\* browser of each user with the attendance loaded.
TogglingBrowsers == {"admin1", "member"}
\* The votes stored while attendance is toggled.
MaxToggleVotes == 2

InitToggle ==
    /\ suggestions = <<[id |-> 1, user_id |-> 2, restaurant |-> 1, created_at |-> 1],
                       [id |-> 2, user_id |-> 1, restaurant |-> 2, created_at |-> 2]>>
    /\ votes = <<>>
    /\ attendance = <<[id |-> 1, user_id |-> 1, is_attending |-> TRUE],
                      [id |-> 2, user_id |-> 2, is_attending |-> TRUE]>>
    /\ sortBy = "score"
    /\ sortDirection = "desc"
    /\ statsMemo = <<>>
    /\ sortedView = <<>>
    /\ resultsView = <<>>
    /\ winnerView = 0
    /\ weekPlans = <<>>
    /\ nextPlanId = 1
    /\ weekPlan = [c \in Sessions |-> NoPlan]
    /\ pc = [c \in Sessions |-> "idle"]
    /\ req = [c \in Sessions |-> NoRequest]
    /\ attendanceCache = [b \in Browsers |-> [loaded |-> TRUE, rows |-> attendance]]
    /\ attendanceReplies = [b \in Browsers |-> <<>>]
    /\ rankedSuggestions = [b \in Browsers |-> <<>>]
    /\ hasChanges = [b \in Browsers |-> FALSE]
    /\ isSaving = [b \in Browsers |-> FALSE]
    /\ pendingUpserts = [b \in Browsers |-> {}]
    /\ searchType = "nearby"
    /\ apiKeySet = TRUE
    /\ userLat = 0
    /\ ProxyIdle
    /\ ExtraInit

\* useUpdateVotes: one upsertVote of the browser's user reaches the store.
\* A vote changed: what was noted at the last toggle is of no use any more.
updateVote(b, sid, r) ==
    /\ upsertVote(BrowserUser(b), sid, r)
    /\ Len(votes') <= MaxToggleVotes
    /\ beforeToggle' = NoSnapshot
    /\ UNCHANGED <<attendanceCache, attendanceReplies>>
    /\ UNCHANGED <<viewVars, planVars, votingVars, proxyVars, extraVars>>

NextToggle ==
    \/ \E b \in TogglingBrowsers : FetchAttendance(b)
    \/ \E b \in TogglingBrowsers : handleToggleAttendance(b)
    \/ \E b \in TogglingBrowsers : ToggleSuccess(b)
    \/ \E b \in TogglingBrowsers, sid \in 1..MaxSuggestions, r \in Ranks :
          updateVote(b, sid, r)

SpecToggle == InitToggle /\ [][NextToggle]_vars

\* What a browser shows from the suggestions, the votes and attendance rows:
\* the results table with its scores and ranks, the sortable list and the
\* winner.
ViewFrom(suggs, vs, rows) ==
    [results |-> VotingResults(suggs, vs, rows),
     sorted |-> RestaurantSorting(suggs, vs, attendingUsers(rows), sortBy, sortDirection),
     winner |-> calculateWinner(vs, rows)]

ViewOf(b) == ViewFrom(suggestions, votes, attendanceCache[b].rows)
\* What the browser shows once the step is over.
ViewAfter(b) == ViewFrom(suggestions', votes', attendanceCache'[b].rows)

\* The total score a list of statistics gives suggestion sid.
ScoreIn(stats, sid) ==
    stats[FindIndex({i \in 1..Len(stats) : stats[i].id = sid})].totalScore

\* The sum of the ranks of user u's votes for suggestion sid.
ContributionOf(u, sid) ==
    SumRanks(SelectSeq(votes, LAMBDA v : v.user_id = u /\ v.suggestion_id = sid))

\* The attendance rows of the users other than u.
RowsOfOthers(rows, u) == SelectSeq(rows, LAMBDA a : a.user_id # u)

\* A step after which browser b shows its user as not attending, having
\* shown them as attending before, with the other users' attendance as it
\* was.
TurnedOff(b) ==
    /\ isUserAttending(b)
    /\ ~isUserAttending(b)'
    /\ RowsOfOthers(attendanceCache'[b].rows, BrowserUser(b))
          = RowsOfOthers(attendanceCache[b].rows, BrowserUser(b))

\* Browser b shows its user as attending again after the toggle noted in
\* beforeToggle, with the votes, the suggestions and the other users'
\* attendance as they were then.
BackOn(b) ==
    /\ beforeToggle.holder = b
    /\ isUserAttending(b)
    /\ votes = beforeToggle.votes
    /\ suggestions = beforeToggle.suggestions
    /\ RowsOfOthers(attendanceCache[b].rows, BrowserUser(b))
          = RowsOfOthers(beforeToggle.rows, BrowserUser(b))

\* C24: setting a user's attendance to not attending leaves the stored votes
\* as they are and takes the user's ranks out of every score; setting it back
\* to attending with no vote changed in between brings back exactly the
\* scores, the ranking and the winner from before the first toggle.
C24_ToggleOffAndOnRestoresScores ==
    [][\A b \in TogglingBrowsers :
          /\ (attendance' # attendance \/ attendanceCache'[b] # attendanceCache[b]) =>
                votes' = votes
          /\ TurnedOff(b) =>
                /\ votes' = votes
                /\ \A sid \in SuggestionIds :
                      /\ ScoreIn(ViewOf(b).results, sid) - ContributionOf(BrowserUser(b), sid)
                            = ScoreIn(ViewAfter(b).results, sid)
                      /\ ScoreIn(ViewOf(b).sorted, sid) - ContributionOf(BrowserUser(b), sid)
                            = ScoreIn(ViewAfter(b).sorted, sid)
          /\ BackOn(b)' =>
                ViewAfter(b) = ViewFrom(beforeToggle'.suggestions, beforeToggle'.votes,
                                      beforeToggle'.rows)]_vars

\* A browser shows its user attending again after a toggle off and on, the
\* store agrees, and while the user was off the winner was a different one.
C24_Witness ==
    \E b \in TogglingBrowsers :
       /\ BackOn(b)
       /\ attendanceReplies[b] = <<>>
       /\ attendanceCache[b].rows = attendance
       /\ Len(votes) = 2
       /\ ViewOf(b).winner # None
       /\ calculateWinner(votes, RowsOfOthers(attendanceCache[b].rows, BrowserUser(b)))
             \notin {None, ViewOf(b).winner}
\* A step in which the answer to a page request of the nearby search
\* arrives.
PageAnswered == ppc \in {"first_fetch", "next_fetch"} /\ received' = received + 1

\* m is an integer nearest to the great-circle distance between the
\* latitudes lat1 and lat2 on one meridian.
NearestMetres(m, lat1, lat2) ==
    LET d == calculateDistance(lat1, lat2)
        diff == m * d.den - d.num
    IN  /\ m \in Nat
        /\ 2 * diff <= d.den
        /\ 2 * (0 - diff) <= d.den

\* C25: a successful nearby search returns a permutation of the
\* concatenation of the results of all pages fetched with success, nothing
\* dropped and nothing duplicated by the merge; every returned result has an
\* integer distance_meters computed from the request origin, and
\* total_results is the number of returned results.
C25_ResponseIsMergedPagesWithDistances ==
    [][PageAnswered =>
          /\ allResults' = IF data'.status = "OK"
                           THEN allResults \o data'.results
                           ELSE allResults
          /\ (ppc' = "done" /\ response'.status = 200) =>
                /\ Len(response'.results) = Len(allResults')
                /\ \A x \in Lats :
                      Count(ResponseLats(response'), x) = Count(allResults', x)
                /\ \A i \in 1..Len(response'.results) :
                      NearestMetres(response'.results[i].distance_meters, userLat,
                                    response'.results[i].lat)
                /\ response'.total_results = Len(response'.results)]_vars

\* Three pages with one place each, listed out of order and one of them a
\* place listed twice by the upstream, answered with all three and their
\* distances.
C25_Witness ==
    /\ searchType = "nearby"
    /\ ppc = "done"
    /\ response.status = 200
    /\ received = 3
    /\ data.status = "OK"
    /\ response.total_results = 3
    /\ allResults[1] = allResults[3]
    /\ allResults[2] # allResults[1]
    /\ ResponseLats(response) # allResults
    /\ \E i \in 1..3 : response.results[i].distance_meters > 300
\* VotingResults headline: results[0], the top entry of the score ranking
\* (None with no suggestion: "No winner").
HeadlineWinner(suggs, vs, att) ==
    LET results == VotingResults(suggs, vs, att)
    IN  IF Len(results) = 0 THEN None ELSE results[1].id

\* C26: whenever the results view is shown for a week with at least one
\* suggestion, the restaurant of the 'Winner Selected!' headline is the
\* suggestion that calculateWinner names and that is badged SELECTED, also
\* with ties for the highest score and with no eligible vote.
C26_HeadlineIsComputedWinner ==
    \A c \in Sessions :
       (ShowVotingResults(c) /\ Len(suggestions) >= 1) =>
          HeadlineWinner(suggestions, votes, attendance) = winnerSuggestionId
\* The suggestion VotingResults badges SELECTED: the result whose id is the
\* winnerSuggestionId prop, which NextWeekView fills with the computed
\* winner (None: no result is badged).
SelectedBadge(c) ==
    IF winnerSuggestionId \in SuggestionIds THEN winnerSuggestionId ELSE None

\* C27: whenever a WeekPlan exists for the week, the suggestion highlighted
\* as SELECTED in the results view is the plan's selected_suggestion_id, also
\* after an admin override of the computed winner and after changes that
\* follow the confirmation.
C27_SelectedBadgeIsPlanSelection ==
    \A c \in Sessions :
       ShowVotingResults(c) => SelectedBadge(c) = weekPlan[c].selected_suggestion_id
\* C28: every WeekPlan a confirmation produced has the id of a suggestion of
\* the week as selected_suggestion_id and that suggestion's restaurant name
\* as final_destination; a confirmation of the vote results made without an
\* eligible vote stores no plan with an empty id and the destination
\* 'Unknown'.
C28_StoredPlanNamesASuggestion ==
    \A k \in 1..Len(weekPlans) :
       \E i \in 1..Len(suggestions) :
          /\ weekPlans[k].selected_suggestion_id = suggestions[i].id
          /\ weekPlans[k].final_destination = suggestions[i].restaurant
\* The store holds, for the browser's user, exactly the votes a save of the
\* browser's ordering submits, and nothing of a save is under way.
OrderingSaved(b) ==
    LET submitted == newVotes(rankedSuggestions[b], BrowserUser(b))
    IN  /\ Len(rankedSuggestions[b]) = Len(suggestions)
        /\ Len(suggestions) > 0
        /\ pendingUpserts[b] = {}
        /\ ~isSaving[b]
        /\ \A i \in 1..Len(submitted) :
              \E k \in 1..Len(votes) :
                 /\ votes[k].user_id = submitted[i].user_id
                 /\ votes[k].suggestion_id = submitted[i].suggestion_id
                 /\ votes[k].rank = submitted[i].rank

\* C29: once a user has saved an ordering of all N suggestions and the votes
\* are loaded again with the same suggestions, the ranking view lists the
\* suggestions in the saved order, top choice first, so that saving again
\* without a drag would submit the same ranks.
C29_ReloadShowsSavedOrder ==
    \A b \in Voters :
       OrderingSaved(b) =>
          InitialRanking(suggestions, votes, BrowserUser(b)) = rankedSuggestions[b]
\* DragDropVoting with the sort modes: overallData.scores.get(id), 0 without
\* an entry; the map is filled from the votes of the attending users.
overallTotalScore(vs, att, sid) ==
    LET overallScores == ScoreMap(relevantVotes(vs, attendingUsers(att)))
        k == FindIndex({i \in 1..Len(overallScores.keys) : overallScores.keys[i] = sid})
    IN  IF k = 0 THEN 0 ELSE overallScores.val[k]

\* DragDropVoting with the team statistics: teamTotal, the ranks of all the
\* votes for the suggestion; the component gets no attendance.
teamTotal(vs, sid) == SumRanks(SelectSeq(vs, LAMBDA v : v.suggestion_id = sid))

\* C30: the team total score of a suggestion is the same wherever it is
\* computed: in the VotingResults table, in the RestaurantSorting list, in
\* the score map of calculateWinner (for suggestions with an eligible vote)
\* and in the team totals of the DragDropVoting variants; none of them
\* counts a vote of a user who is not attending.
C30_TeamTotalIsTheSameEverywhere ==
    LET res == VotingResults(suggestions, votes, attendance)
        stats == suggestionsWithStats(suggestions, votes, attendingUsers(attendance))
        scoreMap == ScoreMap(relevantVotes(votes, attendingUsers(attendance)))
    IN  \A sid \in SuggestionIds :
           /\ ScoreIn(res, sid) = EligibleScore(sid)
           /\ ScoreIn(stats, sid) = EligibleScore(sid)
           /\ \A k \in 1..Len(scoreMap.keys) :
                 scoreMap.keys[k] = sid => scoreMap.val[k] = EligibleScore(sid)
           /\ overallTotalScore(votes, attendance, sid) = EligibleScore(sid)
           /\ teamTotal(votes, sid) = EligibleScore(sid)
====
